---------------------------- MODULE Spec2Model ----------------------------
(***************************************************************************)
(* Memory subsystem of the kernel: the area frame allocator, the           *)
(* four-level page tables reached through the recursive mapping, the       *)
(* temporary page and the active / inactive page tables.                   *)
(*                                                                         *)
(* Scale.  The source's machine words are 64 bits wide and a table has     *)
(* 512 entries.  The model keeps PAGE_SIZE and the low flag bits as they   *)
(* are and scales the rest so that every number fits the checker's         *)
(* integers: a table has ENTRY_COUNT entries, a page number is four        *)
(* base-ENTRY_COUNT digits, and physical memory has NumFrames frames.      *)
(***************************************************************************)
EXTENDS Integers, Sequences, FiniteSets, TLC

VARIABLES
    alloc,      \* the AreaFrameAllocator (its fields)
    returned,   \* history: the frames allocate_frame has returned, in order
    last,       \* history: the result of the latest allocate_frame call
    mem,        \* physical memory: the frames, each read as a page table
    cr3,        \* the CR3 register: the physical address of the active P4
    tlb,        \* the translations the TLB holds: page -> frame
    flushes,    \* history: the TLB flushes issued, a page or FlushAll each
    tmp,        \* the TemporaryPage: its page and its TinyAllocator
    inactive,   \* the InactivePageTable values in existence (their p4_frame)
    ctx,        \* the last call of ActivePageTable::with: its locals
    panicked,   \* the panic message once the kernel has panicked ("" before)
    hist,       \* history: the operations carried out, in order
    boot,       \* the boot information: the ELF sections and its own place
    pc,         \* how far memory::init has come
    range,      \* the StackAllocator: the pages left of its range
    stacks,     \* history: the stacks alloc_stack has returned, in order
    gdt,        \* the Gdt (its fields); in interrupts, the static GDT
    tss,        \* the static TSS: its interrupt stack table
    cpu,        \* the processor's EFER.NXE, CR0.WP, CS, TR, GDTR and IDTR
    intr,       \* interrupts::init: the calls so far and the locals of the last
    vga         \* the VGA text buffer and the static WRITER (its fields)

allocVars == <<alloc, returned, last>>
kernelVars == <<boot, pc, range, stacks, gdt, tss, cpu, intr, vga>>
pagingVars == <<mem, cr3, tlb, flushes, tmp, inactive, ctx, panicked, hist, kernelVars>>
vars == <<alloc, returned, last, mem, cr3, tlb, flushes, tmp, inactive, ctx,
          panicked, hist, boot, pc, range, stacks, gdt, tss, cpu, intr, vga>>

\* Option::None
None == -1

\* no allocate_frame call has been made yet
NoCall == None - 1

(***************************************************************************)
(* memory/mod.rs: Frame                                                    *)
(***************************************************************************)
PAGE_SIZE == 4096

\* Frame::containing_address
FrameContainingAddress(address) == address \div PAGE_SIZE

\* Frame::start_address
FrameStartAddress(number) == number * PAGE_SIZE

(***************************************************************************)
(* Bounds of the allocator's inputs.  Addresses of the memory map are      *)
(* multiples of half a page, so that areas need not be page aligned.       *)
(***************************************************************************)
MaxFrames == 3
MaxAreas == 2

HalfPage == PAGE_SIZE \div 2

\* the lengths of the areas: a page, a page and a half, two pages
AreaLengths == {PAGE_SIZE, PAGE_SIZE + HalfPage, 2 * PAGE_SIZE}

\* the memory areas a memory map is drawn from: base_addr a multiple of half a
\* page, the area ending at or before the end of frame MaxFrames - 1
AreaSet ==
    { a \in [base_addr : { b * HalfPage : b \in 0..(2 * MaxFrames - 1) },
             length : AreaLengths] :
        a.base_addr + a.length <= MaxFrames * PAGE_SIZE }

\* memory maps: the areas in the order the MemoryAreaIter yields them
MemoryMaps == UNION { [1..n -> AreaSet] : n \in 1..MaxAreas }

\* a reserved range of one or two frames, as its first and its last frame
ReservedRanges ==
    { r \in (0..(MaxFrames - 1)) \X (0..(MaxFrames - 1)) :
        r[1] <= r[2] /\ r[2] <= r[1] + 1 }

(***************************************************************************)
(* memory/area_frame_allocator.rs                                          *)
(***************************************************************************)

\* the last frame of an area (allocate_frame and choose_next_area compute it
\* alike)
AreaLastFrame(area) ==
    FrameContainingAddress(area.base_addr + area.length - 1)

\* a mutant of choose_next_area: the cursor is always set to the start of the
\* area chosen, also when it is already past it
ChooseNextAreaResetsCursor(a) ==
    LET cand == { i \in 1..Len(a.areas) :
                    AreaLastFrame(a.areas[i]) >= a.next_free_frame }
    IN  IF cand = {}
        THEN [a EXCEPT !.current_area = None]
        ELSE LET i == CHOOSE i \in cand : \A j \in cand :
                        \/ a.areas[i].base_addr < a.areas[j].base_addr
                        \/ a.areas[i].base_addr = a.areas[j].base_addr /\ i <= j
             IN  [a EXCEPT !.current_area = i,
                           !.next_free_frame =
                               FrameContainingAddress(a.areas[i].base_addr)]

\* a mutant of choose_next_area: an area whose last frame is the cursor is
\* taken to be used up
ChooseNextAreaPastCursor(a) ==
    LET cand == { i \in 1..Len(a.areas) :
                    AreaLastFrame(a.areas[i]) > a.next_free_frame }
    IN  IF cand = {}
        THEN [a EXCEPT !.current_area = None]
        ELSE LET i == CHOOSE i \in cand : \A j \in cand :
                        \/ a.areas[i].base_addr < a.areas[j].base_addr
                        \/ a.areas[i].base_addr = a.areas[j].base_addr /\ i <= j
                 start_frame == FrameContainingAddress(a.areas[i].base_addr)
             IN  [a EXCEPT !.current_area = i,
                           !.next_free_frame =
                               IF a.next_free_frame < start_frame
                               THEN start_frame ELSE @]

\* AreaFrameAllocator::choose_next_area: the area with the smallest base_addr
\* (the first such in iteration order) among those whose last frame is not
\* below the cursor; the cursor moves up to the start of that area
choose_next_area(a) ==
    LET cand == { i \in 1..Len(a.areas) :
                    AreaLastFrame(a.areas[i]) >= a.next_free_frame }
    IN  IF cand = {}
        THEN [a EXCEPT !.current_area = None]
        ELSE LET i == CHOOSE i \in cand : \A j \in cand :
                        \/ a.areas[i].base_addr < a.areas[j].base_addr
                        \/ a.areas[i].base_addr = a.areas[j].base_addr /\ i <= j
                 start_frame == FrameContainingAddress(a.areas[i].base_addr)
             IN  [a EXCEPT !.current_area = i,
                           !.next_free_frame =
                               IF a.next_free_frame < start_frame
                               THEN start_frame ELSE @]

RECURSIVE allocate_frame(_)
RECURSIVE AllocateFrameNoMultiboot(_)
RECURSIVE AllocateFrameKernelEndExclusive(_)
RECURSIVE AllocateFrameAdvancesWhenExhausted(_)

\* a mutant of allocate_frame: the multiboot range is not skipped
AllocateFrameNoMultiboot(a) ==
    IF a.current_area # None
    THEN LET frame == a.next_free_frame
             current_area_last_frame == AreaLastFrame(a.areas[a.current_area])
         IN  IF frame > current_area_last_frame
             THEN AllocateFrameNoMultiboot(choose_next_area(a))
             ELSE IF frame >= a.kernel_start /\ frame <= a.kernel_end
             THEN AllocateFrameNoMultiboot(
                      [a EXCEPT !.next_free_frame = a.kernel_end + 1])
             ELSE [alloc |-> [a EXCEPT !.next_free_frame = @ + 1],
                   frame |-> frame]
    ELSE [alloc |-> a, frame |-> None]

\* a mutant of allocate_frame: the last frame of the kernel is not taken as
\* part of the kernel
AllocateFrameKernelEndExclusive(a) ==
    IF a.current_area # None
    THEN LET frame == a.next_free_frame
             current_area_last_frame == AreaLastFrame(a.areas[a.current_area])
         IN  IF frame > current_area_last_frame
             THEN AllocateFrameKernelEndExclusive(choose_next_area(a))
             ELSE IF frame >= a.kernel_start /\ frame < a.kernel_end
             THEN AllocateFrameKernelEndExclusive(
                      [a EXCEPT !.next_free_frame = a.kernel_end])
             ELSE IF frame >= a.multiboot_start /\ frame <= a.multiboot_end
             THEN AllocateFrameKernelEndExclusive(
                      [a EXCEPT !.next_free_frame = a.multiboot_end + 1])
             ELSE [alloc |-> [a EXCEPT !.next_free_frame = @ + 1],
                   frame |-> frame]
    ELSE [alloc |-> a, frame |-> None]

\* a mutant of allocate_frame: a call on an exhausted allocator still moves
\* the cursor
AllocateFrameAdvancesWhenExhausted(a) ==
    IF a.current_area # None
    THEN LET frame == a.next_free_frame
             current_area_last_frame == AreaLastFrame(a.areas[a.current_area])
         IN  IF frame > current_area_last_frame
             THEN AllocateFrameAdvancesWhenExhausted(choose_next_area(a))
             ELSE IF frame >= a.kernel_start /\ frame <= a.kernel_end
             THEN AllocateFrameAdvancesWhenExhausted(
                      [a EXCEPT !.next_free_frame = a.kernel_end + 1])
             ELSE IF frame >= a.multiboot_start /\ frame <= a.multiboot_end
             THEN AllocateFrameAdvancesWhenExhausted(
                      [a EXCEPT !.next_free_frame = a.multiboot_end + 1])
             ELSE [alloc |-> [a EXCEPT !.next_free_frame = @ + 1],
                   frame |-> frame]
    ELSE [alloc |-> [a EXCEPT !.next_free_frame = (@ + 1) % (2 * MaxFrames + 4)],
          frame |-> None]

\* AreaFrameAllocator::allocate_frame.  The result is the allocator after the
\* call and the frame returned (None: no free frames left).
allocate_frame(a) ==
    IF a.current_area # None
    THEN LET frame == a.next_free_frame
             current_area_last_frame == AreaLastFrame(a.areas[a.current_area])
         IN  IF frame > current_area_last_frame
             THEN \* all frames of current area are used, switch to next area
                  allocate_frame(choose_next_area(a))
             ELSE IF frame >= a.kernel_start /\ frame <= a.kernel_end
             THEN \* `frame` is used by the kernel
                  allocate_frame([a EXCEPT !.next_free_frame = a.kernel_end + 1])
             ELSE IF frame >= a.multiboot_start /\ frame <= a.multiboot_end
             THEN \* `frame` is used by the multiboot information structure
                  allocate_frame([a EXCEPT !.next_free_frame = a.multiboot_end + 1])
             ELSE \* frame is unused, increment `next_free_frame` and return it
                  [alloc |-> [a EXCEPT !.next_free_frame = @ + 1],
                   frame |-> frame]
    ELSE [alloc |-> a, frame |-> None]

\* AreaFrameAllocator::new
AreaFrameAllocatorNew(kernel_start, kernel_end, multiboot_start, multiboot_end, memory_areas) ==
    choose_next_area(
        [next_free_frame |-> FrameContainingAddress(0),
         current_area    |-> None,
         areas           |-> memory_areas,
         kernel_start    |-> FrameContainingAddress(kernel_start),
         kernel_end      |-> FrameContainingAddress(kernel_end),
         multiboot_start |-> FrameContainingAddress(multiboot_start),
         multiboot_end   |-> FrameContainingAddress(multiboot_end)])

\* no TemporaryPage has been made
NoTemporaryPage == [page |-> None, allocator |-> <<>>]

\* ActivePageTable::with has not been called
NoContext == [phase |-> "none", table |-> None, original |-> None, before |-> <<>>]

\* the static TSS before call_once has run
NoTss == [interrupt_stack_table |-> <<>>]

\* the processor as the boot code leaves it: EFER.NXE and CR0.WP off, the
\* boot code's segment in CS, no task register, the boot code's GDT, no IDT
CpuAtBoot ==
    [nxe |-> FALSE, wp |-> FALSE, cs |-> None, tr |-> None,
     gdtr |-> <<>>, idtr |-> FALSE]

\* interrupts::init has not been called
NoInterruptsInit ==
    [calls |-> 0, double_fault_stack |-> [top |-> None, bottom |-> None],
     code_selector |-> 0, tss_selector |-> 0]

\* the VGA text buffer where nothing is written to the screen: its cells are
\* left out
NoWriter == [column_position |-> 0, color_code |-> 0, chars |-> <<>>]

\* the paging state while only the allocator is exercised: no memory, no
\* page table
\* no boot information is at hand, memory::init has not begun, there is no
\* StackAllocator and no Gdt
KernelIdle ==
    /\ boot = [sections |-> <<>>, start_address |-> 0, end_address |-> 0]
    /\ pc = "boot"
    /\ range = [start |-> 0, end |-> None]
    /\ stacks = <<>>
    /\ gdt = [table |-> <<>>, next_free |-> 0]
    /\ tss = NoTss
    /\ cpu = CpuAtBoot
    /\ intr = NoInterruptsInit
    /\ vga = NoWriter

PagingIdle ==
    /\ KernelIdle
    /\ mem = <<>>
    /\ cr3 = 0
    /\ tlb = <<>>
    /\ flushes = <<>>
    /\ tmp = NoTemporaryPage
    /\ inactive = {}
    /\ ctx = NoContext
    /\ panicked = ""
    /\ hist = <<>>

(***************************************************************************)
(* The allocator on its own: a memory map and two reserved ranges, then    *)
(* allocate_frame called again and again.                                  *)
(***************************************************************************)
\* the reserved ranges are handed over as addresses: the kernel's as the
\* addresses of its first and last page, the multiboot structure's as its
\* first byte and a byte in the middle of its last page
InitAlloc ==
    /\ \E mm \in MemoryMaps, k \in ReservedRanges, b \in ReservedRanges :
          alloc = AreaFrameAllocatorNew(FrameStartAddress(k[1]),
                                        FrameStartAddress(k[2]),
                                        FrameStartAddress(b[1]),
                                        FrameStartAddress(b[2]) + HalfPage, mm)
    /\ returned = <<>>
    /\ last = NoCall
    /\ PagingIdle

AllocateFrame ==
    LET r == allocate_frame(alloc)
    IN  /\ alloc' = r.alloc
        /\ last' = r.frame
        /\ returned' = IF r.frame = None THEN returned
                       ELSE Append(returned, r.frame)
        /\ UNCHANGED pagingVars

NextAlloc == AllocateFrame

SpecAlloc == InitAlloc /\ [][NextAlloc]_vars

(***************************************************************************)
(* Scenario S4: one memory area [0, 0x100000), the kernel at               *)
(* [0x10000, 0x20000], the multiboot structure at [0x30000, 0x31000].      *)
(***************************************************************************)
InitS4 ==
    /\ alloc = AreaFrameAllocatorNew(65536, 131072, 196608, 200704,
                  <<[base_addr |-> 0, length |-> 1048576]>>)
    /\ returned = <<>>
    /\ last = NoCall
    /\ PagingIdle

SpecS4 == InitS4 /\ [][NextAlloc]_vars

(***************************************************************************)
(* Claims about the allocator                                              *)
(***************************************************************************)

\* C1: the frame numbers allocate_frame returns are strictly increasing, so
\* no frame is returned twice.
C1_StrictlyIncreasing ==
    \A i \in 1..Len(returned) : \A j \in 1..Len(returned) :
        i < j => returned[i] < returned[j]

\* C1's case: two frames were returned with frames skipped between them
C1_Witness ==
    /\ Len(returned) >= 2
    /\ returned[2] > returned[1] + 1

\* C2: no frame of the kernel range or of the multiboot range (both
\* inclusive) is ever returned.
C2_NoReservedFrame ==
    \A i \in 1..Len(returned) :
        /\ ~(alloc.kernel_start <= returned[i] /\ returned[i] <= alloc.kernel_end)
        /\ ~(alloc.multiboot_start <= returned[i]
                /\ returned[i] <= alloc.multiboot_end)

\* C2's case: the two reserved ranges overlap and a frame above both of them
\* has been returned
C2_Witness ==
    /\ alloc.kernel_start < alloc.multiboot_start
    /\ alloc.multiboot_start <= alloc.kernel_end
    /\ \E i \in 1..Len(returned) :
          returned[i] > alloc.multiboot_end /\ returned[i] > alloc.kernel_end

\* whether every byte of frame f lies in some area of the memory map (the
\* areas start and end at multiples of half a page)
FrameInsideAreas(f) ==
    \A h \in {2 * f, 2 * f + 1} :
        \E i \in 1..Len(alloc.areas) :
            /\ alloc.areas[i].base_addr <= h * HalfPage
            /\ (h + 1) * HalfPage <= alloc.areas[i].base_addr + alloc.areas[i].length

\* C3: every frame returned lies inside the union of the memory areas, also
\* when an area's base address or length is not a multiple of the page size.
C3_ReturnedInsideAreas ==
    \A i \in 1..Len(returned) : FrameInsideAreas(returned[i])

\* the frame numbers scenario S4 expects, in order: 0..15, 33..47, 50..255
S4Expected ==
    [i \in 1..237 |-> IF i <= 16 THEN i - 1
                      ELSE IF i <= 31 THEN i + 16 ELSE i + 18]

\* C4: in scenario S4 the frames returned are 0..15, then 33..47, then
\* 50..255, and nothing else: 16..32 and 48..49 are the only frames of
\* 0..255 never returned.
C4_ScenarioS4 ==
    /\ Len(returned) <= 237
    /\ \A i \in 1..Len(returned) : returned[i] = S4Expected[i]
    /\ last = None =>
          { returned[i] : i \in 1..Len(returned) }
              = (0..255) \ ((16..32) \cup (48..49))

\* C4's case: the allocator of scenario S4 has run out of frames
C4_Witness ==
    /\ last = None
    /\ Len(returned) = 237

\* C5: once allocate_frame has returned None, every later call returns None
\* and changes nothing: exhaustion is permanent.
C5_ExhaustionPermanent ==
    [][last = None => (last' = None /\ alloc' = alloc /\ returned' = returned)]_vars

\* C5's case: frames were handed out, then the allocator ran out
C5_Witness ==
    /\ last = None
    /\ alloc.current_area = None
    /\ Len(returned) >= 1

(***************************************************************************)
(* memory/paging/entry.rs.  An entry is one machine word.  The flags of    *)
(* bits 0..8 and the address from bit 12 up are where the source has       *)
(* them; the word is WordBits wide instead of 64, so the address field     *)
(* ends below the top bit and NO_EXECUTE is the top bit.                   *)
(***************************************************************************)
WordBits == 30

PRESENT == 1
WRITABLE == 2
USER_ACCESSIBLE == 4
WRITE_THROUGH == 8
NO_CACHE == 16
ACCESSED == 32
DIRTY == 64
HUGE_PAGE == 128
GLOBAL == 256
NO_EXECUTE == 2 ^ (WordBits - 1)

\* the bits of the physical address in an entry (0x000f_ffff_ffff_f000 in the
\* source: bit 12 up to, not including, the bits left to the OS and to
\* NO_EXECUTE)
ADDRESS_MASK == NO_EXECUTE - PAGE_SIZE

\* all the bits EntryFlags defines
ALL_FLAGS ==
    PRESENT + WRITABLE + USER_ACCESSIBLE + WRITE_THROUGH + NO_CACHE + ACCESSED
        + DIRTY + HUGE_PAGE + GLOBAL + NO_EXECUTE

RECURSIVE BitAnd(_, _)
\* a & b
BitAnd(a, b) ==
    IF a = 0 \/ b = 0 THEN 0
    ELSE (IF a % 2 = 1 /\ b % 2 = 1 THEN 1 ELSE 0) + 2 * BitAnd(a \div 2, b \div 2)

RECURSIVE BitOr(_, _)
\* a | b
BitOr(a, b) ==
    IF a = 0 THEN b
    ELSE IF b = 0 THEN a
    ELSE (IF a % 2 = 1 \/ b % 2 = 1 THEN 1 ELSE 0) + 2 * BitOr(a \div 2, b \div 2)

\* !a, within the width of a word
BitNot(a) == (2 ^ WordBits - 1) - a

\* EntryFlags::contains
Contains(flags, flag) == BitAnd(flags, flag) = flag

\* Entry::is_unused
is_unused(entry) == entry = 0

\* Entry::flags (from_bits_truncate)
flags_of(entry) == BitAnd(entry, ALL_FLAGS)

\* Entry::pointed_frame
pointed_frame(entry) ==
    IF Contains(flags_of(entry), PRESENT)
    THEN FrameContainingAddress(BitAnd(entry, ADDRESS_MASK))
    ELSE None

\* the assertion of Entry::set
EntrySetAsserts(frame) == BitAnd(FrameStartAddress(frame), BitNot(ADDRESS_MASK)) = 0

\* a mutant of Entry::set: the flags are or-ed in without the frame's address
EntrySetDropsAddress(frame, flags) == flags

\* the word Entry::set writes
EntrySet(frame, flags) == BitOr(FrameStartAddress(frame), flags)

(***************************************************************************)
(* memory/paging/mod.rs: Page.  A page number is four digits in base       *)
(* ENTRY_COUNT, the indices into P4, P3, P2 and P1.                        *)
(***************************************************************************)
ENTRY_COUNT == 4

\* the number of pages of the virtual address space
NumPages == ENTRY_COUNT * ENTRY_COUNT * ENTRY_COUNT * ENTRY_COUNT

Indices == 0..(ENTRY_COUNT - 1)

\* the index of the recursive entry of a P4 (511 in the source)
RECURSIVE_INDEX == ENTRY_COUNT - 1

\* Page::containing_address
PageContainingAddress(address) == address \div PAGE_SIZE

\* Page::start_address
PageStartAddress(page) == page * PAGE_SIZE

p4_index(page) == (page \div (ENTRY_COUNT * ENTRY_COUNT * ENTRY_COUNT)) % ENTRY_COUNT
p3_index(page) == (page \div (ENTRY_COUNT * ENTRY_COUNT)) % ENTRY_COUNT
p2_index(page) == (page \div ENTRY_COUNT) % ENTRY_COUNT
p1_index(page) == page % ENTRY_COUNT

\* the page with the given indices
PageOf(i4, i3, i2, i1) == ((i4 * ENTRY_COUNT + i3) * ENTRY_COUNT + i2) * ENTRY_COUNT + i1

(***************************************************************************)
(* The processor: the page-table walk from CR3 and the TLB.  A table is    *)
(* reached through a virtual address, so every access of the mapping code  *)
(* goes through here.                                                      *)
(***************************************************************************)
FlushAll == None

\* whether `frame` is a frame of the physical memory
IsFrame(m, frame) == frame \in DOMAIN m.mem

\* the four-level walk of the hardware: the frame `page` translates to, or
\* None (a page fault)
Walk(m, page) ==
    LET f4 == FrameContainingAddress(m.cr3)
        e4 == m.mem[f4][p4_index(page)]
        f3 == pointed_frame(e4)
    IN  IF f3 = None \/ ~IsFrame(m, f3) THEN None
        ELSE LET e3 == m.mem[f3][p3_index(page)]
                 f2 == pointed_frame(e3)
             IN  IF f2 = None THEN None
                 ELSE IF Contains(flags_of(e3), HUGE_PAGE)
                 THEN f2 + p2_index(page) * ENTRY_COUNT + p1_index(page)
                 ELSE IF ~IsFrame(m, f2) THEN None
                 ELSE LET e2 == m.mem[f2][p2_index(page)]
                          f1 == pointed_frame(e2)
                      IN  IF f1 = None THEN None
                          ELSE IF Contains(flags_of(e2), HUGE_PAGE)
                          THEN f1 + p1_index(page)
                          ELSE IF ~IsFrame(m, f1) THEN None
                          ELSE pointed_frame(m.mem[f1][p1_index(page)])

\* the frame an access to `page` reaches: the TLB's translation if it holds
\* one, the walk's otherwise
Resolve(m, page) ==
    IF page \in DOMAIN m.tlb THEN m.tlb[page] ELSE Walk(m, page)

\* the TLB after an access to `page`: it now holds the page's translation
Touch(m, page) ==
    IF page \in DOMAIN m.tlb \/ Walk(m, page) = None THEN m
    ELSE [m EXCEPT !.tlb = [q \in DOMAIN m.tlb \cup {page} |->
                               IF q = page THEN Walk(m, page) ELSE m.tlb[q]]]

\* tlb::flush
tlb_flush(m, page) ==
    [m EXCEPT !.tlb = [q \in DOMAIN m.tlb \ {page} |-> m.tlb[q]],
              !.flushes = Append(@, page)]

\* tlb::flush_all, and what writing CR3 does to the TLB
tlb_flush_all(m) == [m EXCEPT !.tlb = <<>>, !.flushes = Append(@, FlushAll)]

\* the entry `index` of the table at virtual page `table`
ReadEntry(m, table, index) == m.mem[Resolve(m, table)][index]

\* the memory after a write of `word` to entry `index` of the table at
\* virtual page `table`
WriteEntry(m, table, index, word) ==
    [Touch(m, table) EXCEPT !.mem[Resolve(m, table)][index] = word]

\* whether an access to `table` faults or leaves the physical memory
Faults(m, table) == ~IsFrame(m, Resolve(m, table))

(***************************************************************************)
(* memory/mod.rs: FrameAllocator.  An allocator handed to the mapping code *)
(* is the AreaFrameAllocator ("area") or a TinyAllocator ("tiny"); `taken` *)
(* collects the frames it hands out and `calls` counts the requests.       *)
(***************************************************************************)
AreaAllocator(a) == [kind |-> "area", st |-> a, taken |-> <<>>, calls |-> 0]

TinyAllocator(frames) == [kind |-> "tiny", st |-> frames, taken |-> <<>>, calls |-> 0]

\* a mutant of TinyAllocateFrame: with nothing held, a frame is still given
TinyAllocateFrameAgain(frames) ==
    LET held == { i \in 1..Len(frames) : frames[i] # None }
    IN  IF held = {} THEN [alloc |-> frames, frame |-> 0]
        ELSE LET i == CHOOSE i \in held : \A j \in held : i <= j
             IN  [alloc |-> [frames EXCEPT ![i] = None], frame |-> frames[i]]

\* TinyAllocator::allocate_frame: the first frame held is taken
TinyAllocateFrame(frames) ==
    LET held == { i \in 1..Len(frames) : frames[i] # None }
    IN  IF held = {} THEN [alloc |-> frames, frame |-> None]
        ELSE LET i == CHOOSE i \in held : \A j \in held : i <= j
             IN  [alloc |-> [frames EXCEPT ![i] = None], frame |-> frames[i]]

\* a mutant of TinyDeallocateFrame: with no empty place, the first is overwritten
TinyDeallocateFrameOverwrites(frames, frame) ==
    LET empty == { i \in 1..Len(frames) : frames[i] = None }
    IN  IF empty = {}
        THEN [alloc |-> [frames EXCEPT ![1] = frame], panic |-> ""]
        ELSE LET i == CHOOSE i \in empty : \A j \in empty : i <= j
             IN  [alloc |-> [frames EXCEPT ![i] = frame], panic |-> ""]

\* TinyAllocator::deallocate_frame: the frame goes to the first empty place
TinyDeallocateFrame(frames, frame) ==
    LET empty == { i \in 1..Len(frames) : frames[i] = None }
    IN  IF empty = {}
        THEN [alloc |-> frames, panic |-> "tiny allocator can hold only 3 frames."]
        ELSE LET i == CHOOSE i \in empty : \A j \in empty : i <= j
             IN  [alloc |-> [frames EXCEPT ![i] = frame], panic |-> ""]

\* FrameAllocator::allocate_frame
Allocate(al) ==
    LET r == IF al.kind = "area" THEN allocate_frame(al.st)
             ELSE TinyAllocateFrame(al.st)
    IN  [al |-> [al EXCEPT !.st = r.alloc,
                           !.taken = IF r.frame = None THEN @
                                     ELSE Append(@, r.frame),
                           !.calls = @ + 1],
         frame |-> r.frame]

(***************************************************************************)
(* memory/paging/table.rs.  A table is named by the virtual page it is     *)
(* reached at; P4 is the last page of the address space.                   *)
(***************************************************************************)
\* table::P4 (0xffff_ffff_ffff_f000)
P4 == NumPages - 1

\* Table::next_table_address: (table_address << 9) | (index << 12), the shift
\* dropping the topmost index
next_table_address(m, table, index) ==
    LET entry_flags == flags_of(ReadEntry(m, table, index))
    IN  IF Contains(entry_flags, PRESENT) /\ ~Contains(entry_flags, HUGE_PAGE)
        THEN (table * ENTRY_COUNT + index) % NumPages
        ELSE None

\* Table::zero
zero(m, table) ==
    [Touch(m, table) EXCEPT !.mem[Resolve(m, table)] = [i \in Indices |-> 0]]

\* what an operation of the mapping code yields: the machine and the
\* allocator after it, the panic message ("": it returned) and its value
Result(m, al, panic, val) == [m |-> m, al |-> al, panic |-> panic, val |-> val]

\* F applied to the value v, v worked out once
Let(v, F(_)) == CHOOSE y \in { F(x) : x \in {v} } : TRUE

\* the result r of a step if it panicked, else what F makes of it
Then(r, F(_)) == CHOOSE y \in { IF x.panic # "" THEN x ELSE F(x) : x \in {r} } : TRUE

\* next_table_create once the entry is found not to lead to a table: the frame
\* allocated becomes the new, zeroed table
CreateTable(m, r, table, index) ==
    IF r.frame = None
    THEN Result(Touch(m, table), r.al, "no frames available", None)
    ELSE IF ~EntrySetAsserts(r.frame)
    THEN Result(Touch(m, table), r.al, "assertion failed: Entry::set", None)
    ELSE Let(WriteEntry(m, table, index, EntrySet(r.frame, BitOr(PRESENT, WRITABLE))),
             LAMBDA m1 :
               Let(next_table_address(m1, table, index), LAMBDA child :
                 IF child = None
                 THEN Result(m1, r.al, "next table inexplicably does not exist", None)
                 ELSE Result(zero(m1, child), r.al, "", child)))

\* a mutant of next_table_create: the new table is not zeroed
NextTableCreateNoZero(m, al, table, index) ==
    Let(next_table_address(m, table, index), LAMBDA next :
      IF next # None
      THEN Result(Touch(m, table), al, "", next)
      ELSE IF Contains(flags_of(ReadEntry(m, table, index)), HUGE_PAGE)
      THEN Result(Touch(m, table), al, "mapping code does not support huge pages", None)
      ELSE Let(Allocate(al), LAMBDA r :
             IF r.frame = None
             THEN Result(Touch(m, table), r.al, "no frames available", None)
             ELSE Let(WriteEntry(m, table, index,
                                 EntrySet(r.frame, BitOr(PRESENT, WRITABLE))),
                      LAMBDA m1 :
                        Result(m1, r.al, "", next_table_address(m1, table, index)))))

\* Table::next_table_create
next_table_create(m, al, table, index) ==
    Let(next_table_address(m, table, index), LAMBDA next :
      IF next # None
      THEN Result(Touch(m, table), al, "", next)
      ELSE IF Contains(flags_of(ReadEntry(m, table, index)), HUGE_PAGE)
      THEN Result(Touch(m, table), al, "mapping code does not support huge pages", None)
      ELSE Let(Allocate(al), LAMBDA r : CreateTable(m, r, table, index)))

(***************************************************************************)
(* memory/paging/mapper.rs                                                 *)
(***************************************************************************)
\* translate_page ran into one of its alignment assertions
AssertFailed == None - 2

\* a mutant of huge_page: the P2 index is left out of a 1GiB page's frame
HugePageDropsP2Index(m, page, p3) ==
    LET p3_entry == ReadEntry(m, p3, p3_index(page))
        start3 == pointed_frame(p3_entry)
        p2 == next_table_address(m, p3, p3_index(page))
    IN  IF start3 # None /\ Contains(flags_of(p3_entry), HUGE_PAGE)
        THEN IF start3 % (ENTRY_COUNT * ENTRY_COUNT) # 0 THEN AssertFailed
             ELSE start3 + p1_index(page)
        ELSE IF p2 = None THEN None
        ELSE LET p2_entry == ReadEntry(m, p2, p2_index(page))
                 start2 == pointed_frame(p2_entry)
             IN  IF start2 # None /\ Contains(flags_of(p2_entry), HUGE_PAGE)
                 THEN IF start2 % ENTRY_COUNT # 0 THEN AssertFailed
                      ELSE start2 + p1_index(page)
                 ELSE None

\* the closure huge_page of translate_page, given the P3
huge_page(m, page, p3) ==
    LET p3_entry == ReadEntry(m, p3, p3_index(page))
        start3 == pointed_frame(p3_entry)
        p2 == next_table_address(m, p3, p3_index(page))
    IN  IF start3 # None /\ Contains(flags_of(p3_entry), HUGE_PAGE)
        THEN \* 1GiB page: the address must be 1GiB aligned
             IF start3 % (ENTRY_COUNT * ENTRY_COUNT) # 0 THEN AssertFailed
             ELSE start3 + p2_index(page) * ENTRY_COUNT + p1_index(page)
        ELSE IF p2 = None THEN None
        ELSE LET p2_entry == ReadEntry(m, p2, p2_index(page))
                 start2 == pointed_frame(p2_entry)
             IN  IF start2 # None /\ Contains(flags_of(p2_entry), HUGE_PAGE)
                 THEN \* 2MiB page: the address must be 2MiB aligned
                      IF start2 % ENTRY_COUNT # 0 THEN AssertFailed
                      ELSE start2 + p1_index(page)
                 ELSE None

\* the tables on the way to `page`: <<P4, P3, P2, P1>>, None from the first
\* that does not exist
PathTables(m, page) ==
    Let(next_table_address(m, P4, p4_index(page)), LAMBDA p3 :
      IF p3 = None THEN <<P4, None, None, None>>
      ELSE Let(next_table_address(m, p3, p3_index(page)), LAMBDA p2 :
             IF p2 = None THEN <<P4, p3, None, None>>
             ELSE <<P4, p3, p2, next_table_address(m, p2, p2_index(page))>>))

\* a mutant of translate_page: the page's P2 index is used in the P1 as well
TranslatePageWrongIndex(m, page) ==
    Let(PathTables(m, page), LAMBDA t :
      Let(IF t[4] = None THEN None
          ELSE pointed_frame(ReadEntry(m, t[4], p2_index(page))), LAMBDA leaf :
        IF leaf # None THEN leaf
        ELSE IF t[2] = None THEN None
        ELSE huge_page(m, page, t[2])))

\* Mapper::translate_page: the frame of `page`, None, or AssertFailed
translate_page(m, page) ==
    Let(PathTables(m, page), LAMBDA t :
      Let(IF t[4] = None THEN None
          ELSE pointed_frame(ReadEntry(m, t[4], p1_index(page))), LAMBDA leaf :
        IF leaf # None THEN leaf
        ELSE IF t[2] = None THEN None
        ELSE huge_page(m, page, t[2])))

\* Mapper::translate: the physical address of a virtual address
translate(m, virtual_address) ==
    Let(translate_page(m, PageContainingAddress(virtual_address)), LAMBDA frame :
      IF frame = None \/ frame = AssertFailed THEN frame
      ELSE frame * PAGE_SIZE + (virtual_address % PAGE_SIZE))

\* the machine after translate_page(page): the tables read are in the TLB
TouchPath(m, page) ==
    Let(PathTables(m, page), LAMBDA t :
      Let(Touch(m, t[1]), LAMBDA m4 :
        Let(IF t[2] = None THEN m4 ELSE Touch(m4, t[2]), LAMBDA m3 :
          Let(IF t[3] = None THEN m3 ELSE Touch(m3, t[3]), LAMBDA m2 :
            IF t[4] = None THEN m2 ELSE Touch(m2, t[4])))))

\* map_to once the P1 is there: the leaf must be unused and is set
SetLeaf(r1, page, frame, flags) ==
    IF ~is_unused(ReadEntry(r1.m, r1.val, p1_index(page)))
    THEN Result(Touch(r1.m, r1.val), r1.al,
                "assertion failed: p1[page.p1_index()].is_unused()", None)
    ELSE IF ~EntrySetAsserts(frame)
    THEN Result(Touch(r1.m, r1.val), r1.al, "assertion failed: Entry::set", None)
    ELSE Result(WriteEntry(r1.m, r1.val, p1_index(page), EntrySet(frame, flags)),
                r1.al, "", None)

\* a mutant of map_to: PRESENT is not added to the flags
MapToWithoutPresent(m, al, page, frame, flags) ==
    Then(next_table_create(m, al, P4, p4_index(page)), LAMBDA r3 :
      Then(next_table_create(r3.m, r3.al, r3.val, p3_index(page)), LAMBDA r2 :
        Then(next_table_create(r2.m, r2.al, r2.val, p2_index(page)), LAMBDA r1 :
          SetLeaf(r1, page, frame, flags))))

\* Mapper::map_to
map_to(m, al, page, frame, flags) ==
    Then(next_table_create(m, al, P4, p4_index(page)), LAMBDA r3 :
      Then(next_table_create(r3.m, r3.al, r3.val, p3_index(page)), LAMBDA r2 :
        Then(next_table_create(r2.m, r2.al, r2.val, p2_index(page)), LAMBDA r1 :
          SetLeaf(r1, page, frame, BitOr(flags, PRESENT)))))

\* a mutant of map: the frame at the allocator's cursor is mapped without
\* being allocated
MapWithoutAllocating(m, al, page, flags) ==
    map_to(m, al, page, al.st.next_free_frame, flags)

\* Mapper::map
map(m, al, page, flags) ==
    Let(Allocate(al), LAMBDA r :
      IF r.frame = None THEN Result(m, r.al, "out of memory", None)
      ELSE map_to(m, r.al, page, r.frame, flags))

\* Mapper::identity_map
identity_map(m, al, frame, flags) ==
    map_to(m, al, PageContainingAddress(FrameStartAddress(frame)), frame, flags)

\* unmap after its first assertion: m0 is the machine, t the tables of the
\* page's path
UnmapLeaf(m0, al, page, t) ==
    IF t[4] = None
    THEN Result(m0, al, "mapping code does not support huge pages", None)
    ELSE IF pointed_frame(ReadEntry(m0, t[4], p1_index(page))) = None
    THEN Result(m0, al, "couldn't find page frame", None)
    ELSE \* set_unused, then tlb::flush
         Result(tlb_flush(WriteEntry(m0, t[4], p1_index(page), 0), page),
                al, "", None)

\* a mutant of unmap: the TLB is flushed first, before anything is checked
UnmapFlushesFirst(m, al, page) ==
    Let(TouchPath(tlb_flush(m, page), page), LAMBDA m0 :
      IF translate(m, PageStartAddress(page)) \in {None, AssertFailed}
      THEN Result(m0, al, "assertion failed: translate(..).is_some()", None)
      ELSE Let(PathTables(m, page), LAMBDA t :
             IF t[4] = None
             THEN Result(m0, al, "mapping code does not support huge pages", None)
             ELSE Result(WriteEntry(m0, t[4], p1_index(page), 0), al, "", None)))

\* a mutant of unmap: the leaf is cleared but the TLB is not flushed
UnmapNoFlush(m, al, page) ==
    Let(TouchPath(m, page), LAMBDA m0 :
      IF translate(m, PageStartAddress(page)) \in {None, AssertFailed}
      THEN Result(m0, al, "assertion failed: translate(..).is_some()", None)
      ELSE Let(PathTables(m, page), LAMBDA t :
             IF t[4] = None
             THEN Result(m0, al, "mapping code does not support huge pages", None)
             ELSE Result(WriteEntry(m0, t[4], p1_index(page), 0), al, "", None)))

\* a mutant of unmap: the entry is looked up but not cleared
UnmapKeepsEntry(m, al, page) ==
    Let(TouchPath(m, page), LAMBDA m0 :
      IF translate(m, PageStartAddress(page)) \in {None, AssertFailed}
      THEN Result(m0, al, "assertion failed: translate(..).is_some()", None)
      ELSE Let(PathTables(m, page), LAMBDA t :
             IF t[4] = None
             THEN Result(m0, al, "mapping code does not support huge pages", None)
             ELSE Result(tlb_flush(m0, page), al, "", None)))

\* a mutant of unmap: the P1 is taken out of its P2 once it is empty
UnmapReclaimsP1(m, al, page) ==
    Let(TouchPath(m, page), LAMBDA m0 :
      IF translate(m, PageStartAddress(page)) \in {None, AssertFailed}
      THEN Result(m0, al, "assertion failed: translate(..).is_some()", None)
      ELSE Then(UnmapLeaf(m0, al, page, PathTables(m, page)), LAMBDA r :
             Let(PathTables(m, page), LAMBDA t :
               IF \A i \in Indices : is_unused(ReadEntry(r.m, t[4], i))
               THEN Result(WriteEntry(r.m, t[3], p2_index(page), 0), r.al, "", None)
               ELSE r)))

\* Mapper::unmap (the allocator is handed in and not used)
unmap(m, al, page) ==
    Let(TouchPath(m, page), LAMBDA m0 :
      IF translate(m, PageStartAddress(page)) \in {None, AssertFailed}
      THEN Result(m0, al, "assertion failed: translate(..).is_some()", None)
      ELSE UnmapLeaf(m0, al, page, PathTables(m, page)))

(***************************************************************************)
(* The machine at boot.  Physical memory has NumFrames frames.  The        *)
(* bootloader's tables lie in the kernel image: a P4 with the recursive    *)
(* entry and one P3, which maps through a P2 of 2MiB pages and through one *)
(* 1GiB page.  The free frames hold whatever was there (`garbage`).        *)
(***************************************************************************)
NumFrames == 18

BootP4 == 1
BootP3 == 2
BootP2 == 3
BootInfoFrame == 4

Frames == 0..(NumFrames - 1)

\* the word the free frames are full of: it reads as an entry that is present
GarbageWord == EntrySet(BootInfoFrame + 2, BitOr(PRESENT, WRITABLE))

HugeFlags == BitOr(BitOr(PRESENT, WRITABLE), HUGE_PAGE)

BootMemory(garbage) ==
    [f \in Frames |->
        IF f = BootP4
        THEN [i \in Indices |->
                IF i = 0 THEN EntrySet(BootP3, BitOr(PRESENT, WRITABLE))
                ELSE IF i = RECURSIVE_INDEX
                THEN EntrySet(BootP4, BitOr(PRESENT, WRITABLE))
                ELSE 0]
        ELSE IF f = BootP3
        THEN [i \in Indices |->
                IF i = 0 THEN EntrySet(BootP2, BitOr(PRESENT, WRITABLE))
                ELSE IF i = 1 THEN EntrySet(ENTRY_COUNT * ENTRY_COUNT, HugeFlags)
                ELSE 0]
        ELSE IF f = BootP2
        THEN [i \in Indices |->
                IF i <= 1 THEN EntrySet(i * ENTRY_COUNT, HugeFlags) ELSE 0]
        ELSE [i \in Indices |-> garbage]]

\* the frame allocator of the booted kernel: all of physical memory is one
\* area, the kernel (with the boot tables) and the boot information are
\* reserved
BootAllocator ==
    AreaFrameAllocatorNew(FrameStartAddress(BootP4), FrameStartAddress(BootP2), FrameStartAddress(BootInfoFrame), FrameStartAddress(BootInfoFrame) + HalfPage, <<[base_addr |-> 0, length |-> NumFrames * PAGE_SIZE]>>)

\* the machine as the operators take it
M == [mem |-> mem, cr3 |-> cr3, tlb |-> tlb, flushes |-> flushes]

InitMachine ==
    /\ alloc = BootAllocator
    /\ returned = <<>>
    /\ last = NoCall
    /\ mem = BootMemory(GarbageWord)
    /\ cr3 = FrameStartAddress(BootP4)
    /\ tlb = <<>>
    /\ flushes = <<>>
    /\ panicked = ""
    /\ hist = <<>>

\* the state after an operation with result r, recorded in hist as `entry`
Commit(r, entry) ==
    /\ mem' = r.m.mem
    /\ cr3' = r.m.cr3
    /\ tlb' = r.m.tlb
    /\ flushes' = r.m.flushes
    /\ panicked' = r.panic
    /\ hist' = Append(hist, [entry EXCEPT !.panic = r.panic])

\* the AreaFrameAllocator after an operation that was handed it as `al`
CommitAllocator(al) ==
    /\ alloc' = al.st
    /\ returned' = returned \o al.taken
    /\ last' = IF al.calls = 0 THEN last
               ELSE IF al.st.current_area = None THEN None
               ELSE al.taken[Len(al.taken)]

Op(op, page, frame, flags) ==
    [op |-> op, page |-> page, frame |-> frame, flags |-> flags, panic |-> ""]

(***************************************************************************)
(* The Mapper on the active table: map_to, map and unmap called on a few   *)
(* pages, one under a 2MiB page, one under the 1GiB page, two that share   *)
(* their tables and one under another P4 entry.                            *)
(***************************************************************************)
MaxMapperOps == 3

MapperPages ==
    { PageOf(0, 0, 0, 1), PageOf(0, 1, 0, 1), PageOf(0, 2, 0, 1),
      PageOf(0, 2, 0, 2), PageOf(1, 0, 0, 0) }

MapperFrames == {0, BootInfoFrame + 3}

MapperFlags == {0, BitOr(WRITABLE, NO_EXECUTE)}

\* the offsets into a page that translate is tried at
Offsets == {0, 1, 291, PAGE_SIZE - 1}

InitMapper ==
    /\ InitMachine
    /\ KernelIdle
    /\ tmp = NoTemporaryPage
    /\ inactive = {}
    /\ ctx = NoContext

MapTo(page, frame, flags) ==
    /\ panicked = ""
    /\ \E r \in {map_to(M, AreaAllocator(alloc), page, frame, flags)} :
          Commit(r, Op("map_to", page, frame, flags)) /\ CommitAllocator(r.al)
    /\ UNCHANGED <<tmp, inactive, ctx, kernelVars>>

Map(page, flags) ==
    /\ panicked = ""
    /\ \E r \in {map(M, AreaAllocator(alloc), page, flags)} :
          /\ Commit(r, Op("map", page,
                          IF Len(r.al.taken) = 0 THEN None ELSE r.al.taken[1],
                          flags))
          /\ CommitAllocator(r.al)
    /\ UNCHANGED <<tmp, inactive, ctx, kernelVars>>

Unmap(page) ==
    /\ panicked = ""
    /\ \E r \in {unmap(M, AreaAllocator(alloc), page)} :
          Commit(r, Op("unmap", page, None, 0)) /\ CommitAllocator(r.al)
    /\ UNCHANGED <<tmp, inactive, ctx, kernelVars>>

\* whether the Mapper's scenario may go on
MapperBudget == Len(hist) < MaxMapperOps

NextMapper ==
    \/ MapperBudget /\ \E page \in MapperPages, frame \in MapperFrames, flags \in MapperFlags :
          MapTo(page, frame, flags)
    \/ MapperBudget /\ \E page \in MapperPages : Map(page, WRITABLE)
    \/ MapperBudget /\ \E page \in MapperPages : Unmap(page)

SpecMapper == InitMapper /\ [][NextMapper]_vars

(***************************************************************************)
(* memory/paging/temporary_page.rs and ActivePageTable::with.  A           *)
(* TemporaryPage is its page and the three frames of its TinyAllocator.    *)
(***************************************************************************)
\* a mutant of TinyAllocatorNew: only two frames are asked for
TinyAllocatorNewTwo(al) ==
    Let(Allocate(al), LAMBDA r1 :
      Let(Allocate(r1.al), LAMBDA r2 :
        [al |-> r2.al, frames |-> <<r1.frame, r2.frame, None>>]))

\* TinyAllocator::new: three frames are asked of the allocator
TinyAllocatorNew(al) ==
    Let(Allocate(al), LAMBDA r1 :
      Let(Allocate(r1.al), LAMBDA r2 :
        Let(Allocate(r2.al), LAMBDA r3 :
          [al |-> r3.al, frames |-> <<r1.frame, r2.frame, r3.frame>>])))

\* TemporaryPage::map; its value is the page the frame is now reached at
temporary_page_map(m, t, frame) ==
    IF translate_page(m, t.page) # None
    THEN Result(TouchPath(m, t.page), TinyAllocator(t.allocator),
                "temporary page is already mapped", None)
    ELSE Then(map_to(TouchPath(m, t.page), TinyAllocator(t.allocator), t.page,
                     frame, WRITABLE),
              LAMBDA r : Result(r.m, r.al, "", t.page))

\* TemporaryPage::unmap
temporary_page_unmap(m, al, t) == unmap(m, al, t.page)

\* a mutant of inactive_page_table_new: the table is not zeroed
InactivePageTableNewNoZero(m, t, frame) ==
    Then(temporary_page_map(m, t, frame), LAMBDA r :
      Let(WriteEntry(r.m, r.val, RECURSIVE_INDEX,
                     EntrySet(frame, BitOr(PRESENT, WRITABLE))),
          LAMBDA m1 :
            Then(temporary_page_unmap(m1, r.al, t), LAMBDA u :
              Result(u.m, u.al, "", frame))))

\* InactivePageTable::new; its value is the p4_frame of the new table
inactive_page_table_new(m, t, frame) ==
    Then(temporary_page_map(m, t, frame), LAMBDA r :
      IF ~EntrySetAsserts(frame)
      THEN Result(zero(r.m, r.val), r.al, "assertion failed: Entry::set", None)
      ELSE Let(WriteEntry(zero(r.m, r.val), r.val, RECURSIVE_INDEX,
                          EntrySet(frame, BitOr(PRESENT, WRITABLE))),
               LAMBDA m1 :
                 Then(temporary_page_unmap(m1, r.al, t), LAMBDA u :
                   Result(u.m, u.al, "", frame))))

\* a mutant of with_enter: the TLB is flushed before the recursive entry is
\* overwritten
WithEnterFlushesFirst(m, t, table) ==
    Then(temporary_page_map(m, t, FrameContainingAddress(m.cr3)), LAMBDA r :
      IF ~EntrySetAsserts(table)
      THEN Result(r.m, r.al, "assertion failed: Entry::set", None)
      ELSE Result(WriteEntry(tlb_flush_all(r.m), P4, RECURSIVE_INDEX,
                             EntrySet(table, BitOr(PRESENT, WRITABLE))),
                  r.al, "", FrameContainingAddress(m.cr3)))

\* a mutant of with_enter: the recursive entry is left pointing at the active P4
WithEnterNoRedirect(m, t, table) ==
    Then(temporary_page_map(m, t, FrameContainingAddress(m.cr3)), LAMBDA r :
      Result(tlb_flush_all(r.m), r.al, "", FrameContainingAddress(m.cr3)))

\* ActivePageTable::with up to the call of f; its value is original_p4
with_enter(m, t, table) ==
    Then(temporary_page_map(m, t, FrameContainingAddress(m.cr3)), LAMBDA r :
      IF ~EntrySetAsserts(table)
      THEN Result(r.m, r.al, "assertion failed: Entry::set", None)
      ELSE Result(tlb_flush_all(WriteEntry(r.m, P4, RECURSIVE_INDEX,
                                           EntrySet(table, BitOr(PRESENT, WRITABLE)))),
                  r.al, "", FrameContainingAddress(m.cr3)))

\* a mutant of with_exit: the recursive entry is not restored
WithExitNoRestore(m, al, t, original_p4) ==
    temporary_page_unmap(tlb_flush_all(m), al, t)

\* ActivePageTable::with from the return of f
with_exit(m, al, t, original_p4) ==
    IF ~EntrySetAsserts(original_p4)
    THEN Result(m, al, "assertion failed: Entry::set", None)
    ELSE temporary_page_unmap(
             tlb_flush_all(WriteEntry(m, t.page, RECURSIVE_INDEX,
                                      EntrySet(original_p4, BitOr(PRESENT, WRITABLE)))),
             al, t)

\* the frames entries of the table in `frame` lead to as tables
Children(m, frame) ==
    { pointed_frame(m.mem[frame][i]) :
        i \in { j \in Indices : Contains(flags_of(m.mem[frame][j]), PRESENT)
                                /\ ~Contains(flags_of(m.mem[frame][j]), HUGE_PAGE) } }
    \cap DOMAIN m.mem

\* the frames of `frames` and those their tables lead to
Grow(m, frames) == frames \cup UNION { Children(m, f) : f \in frames }

\* the active address space: the P4 in CR3 and the P3s, P2s and P1s reachable
\* from it, each with its entries
ActiveTables(m) ==
    [f \in Grow(m, Grow(m, Grow(m, {FrameContainingAddress(m.cr3)}))) |-> m.mem[f]]

(***************************************************************************)
(* The temporary page in use: TemporaryPages are made, inactive tables are *)
(* made through them, and with is called; its closure f maps and unmaps    *)
(* pages of the inactive table.                                            *)
(***************************************************************************)
MaxWithOps == 6

\* the pages a TemporaryPage is made for (0xffff_ffff in remap_kernel: a P4
\* index in the middle, the last index below)
TemporaryPages ==
    { PageOf(1, RECURSIVE_INDEX, RECURSIVE_INDEX, RECURSIVE_INDEX),
      PageOf(2, RECURSIVE_INDEX, RECURSIVE_INDEX, RECURSIVE_INDEX) }

\* the pages f maps and unmaps
ClosurePages == { PageOf(0, 0, 0, 1), PageOf(2, 0, 0, 0) }

\* whether f is running
InsideWith == ctx.phase = "f"

InitWith ==
    /\ InitMachine
    /\ KernelIdle
    /\ tmp = NoTemporaryPage
    /\ inactive = {}
    /\ ctx = NoContext

\* TemporaryPage::new
NewTemporaryPage(page) ==
    /\ panicked = ""
    /\ ~InsideWith
    /\ \E r \in {TinyAllocatorNew(AreaAllocator(alloc))} :
          /\ tmp' = [page |-> page, allocator |-> r.frames]
          /\ CommitAllocator(r.al)
    /\ hist' = Append(hist, Op("TemporaryPage::new", page, None, 0))
    /\ UNCHANGED <<mem, cr3, tlb, flushes, inactive, ctx, panicked, kernelVars>>

\* a frame is allocated and InactivePageTable::new called on it, as
\* remap_kernel does
NewInactivePageTable ==
    /\ panicked = ""
    /\ ~InsideWith
    /\ tmp # NoTemporaryPage
    /\ \E a \in {Allocate(AreaAllocator(alloc))} :
          /\ \E r \in {IF a.frame = None
                       THEN Result(M, TinyAllocator(tmp.allocator), "could not allocate frame", None)
                       ELSE inactive_page_table_new(M, tmp, a.frame)} :
                /\ Commit(r, Op("InactivePageTable::new", tmp.page, a.frame, 0))
                /\ tmp' = [tmp EXCEPT !.allocator = r.al.st]
                /\ inactive' = IF r.panic = "" THEN inactive \cup {a.frame}
                               ELSE inactive
          /\ CommitAllocator(a.al)
    /\ UNCHANGED <<ctx, kernelVars>>

\* ActivePageTable::with is called on an inactive table and reaches f
WithEnter(table) ==
    /\ panicked = ""
    /\ ~InsideWith
    /\ tmp # NoTemporaryPage
    /\ table # FrameContainingAddress(cr3)
    /\ \E r \in {with_enter(M, tmp, table)} :
          /\ Commit(r, Op("with", tmp.page, table, 0))
          /\ tmp' = [tmp EXCEPT !.allocator = r.al.st]
          /\ ctx' = [phase |-> IF r.panic = "" THEN "f" ELSE "panicked",
                     table |-> table,
                     original |-> FrameContainingAddress(cr3),
                     before |-> ActiveTables(M)]
    /\ UNCHANGED <<alloc, returned, last, inactive, kernelVars>>

\* f returns and with runs to its end
WithExit ==
    /\ panicked = ""
    /\ InsideWith
    /\ \E r \in {with_exit(M, TinyAllocator(tmp.allocator), tmp, ctx.original)} :
          /\ Commit(r, Op("with returns", tmp.page, ctx.table, 0))
          /\ tmp' = [tmp EXCEPT !.allocator = r.al.st]
          /\ ctx' = [ctx EXCEPT !.phase = IF r.panic = "" THEN "returned"
                                          ELSE "panicked"]
    /\ UNCHANGED <<alloc, returned, last, inactive, kernelVars>>

\* whether with's scenario may go on
WithBudget == Len(hist) < MaxWithOps

NextWith ==
    \/ WithBudget /\ \E page \in TemporaryPages : NewTemporaryPage(page)
    \/ WithBudget /\ NewInactivePageTable
    \/ WithBudget /\ \E table \in inactive : WithEnter(table)
    \/ WithBudget /\ InsideWith /\ \E page \in ClosurePages : MapTo(page, BootP4, WRITABLE)
    \/ WithBudget /\ InsideWith /\ \E page \in ClosurePages : Unmap(page)
    \/ WithBudget /\ WithExit

SpecWith == InitWith /\ [][NextWith]_vars

(***************************************************************************)
(* Claims about the Mapper.                                                *)
(***************************************************************************)
\* the operation that led to the current state
LastOp == hist[Len(hist)]

\* whether an operation is a map_to that returned, map's own included
MappedOk(e) == e.op \in {"map_to", "map"} /\ e.panic = ""

\* the leaf entry of `page`, None if its P1 does not exist
LeafEntry(m, page) ==
    Let(PathTables(m, page), LAMBDA t :
      IF t[4] = None THEN None ELSE ReadEntry(m, t[4], p1_index(page)))

\* whether the P3 or the P2 entry of `page` is a present huge-page entry
CoveredByHuge(m, page) ==
    Let(PathTables(m, page), LAMBDA t :
      /\ t[2] # None
      /\ \/ Contains(flags_of(ReadEntry(m, t[2], p3_index(page))),
                     BitOr(PRESENT, HUGE_PAGE))
         \/ /\ t[3] # None
            /\ Contains(flags_of(ReadEntry(m, t[3], p2_index(page))),
                        BitOr(PRESENT, HUGE_PAGE)))

\* C6: right after a map_to(p, f, flags) that returned, translate_page(p) is
\* f and translate maps every address p.start + k of the page to f.start + k
C6_MapToTranslates ==
    (Len(hist) > 0 /\ MappedOk(LastOp)) =>
        /\ translate_page(M, LastOp.page) = LastOp.frame
        /\ \A k \in Offsets :
              translate(M, PageStartAddress(LastOp.page) + k)
                  = FrameStartAddress(LastOp.frame) + k

\* C6 happens: a map_to of frame 0 returned after creating the page's tables
C6_Witness ==
    /\ Len(hist) > 0
    /\ LastOp.op = "map_to"
    /\ LastOp.panic = ""
    /\ LastOp.frame = 0
    /\ LastOp.page = PageOf(1, 0, 0, 0)
    /\ Len(returned) = 3

DoubleMapPanic == "assertion failed: p1[page.p1_index()].is_unused()"

\* whether hist[i] mapped the page of the last operation, a map_to, and the
\* page was not unmapped since
MappedTwice(i) ==
    /\ MappedOk(hist[i])
    /\ LastOp.op = "map_to"
    /\ LastOp.page = hist[i].page
    /\ \A k \in (i + 1)..(Len(hist) - 1) :
          ~(hist[k].op = "unmap" /\ hist[k].page = hist[i].page)

\* C8: a map_to(p, f2, flags2) after a map_to(p, f1, flags1) with no unmap(p)
\* in between panics, and the leaf entry of p still holds f1 with flags1
C8_DoubleMapPanics ==
    \A i \in 1..(Len(hist) - 1) :
        MappedTwice(i) =>
            /\ LastOp.panic = DoubleMapPanic
            /\ panicked = DoubleMapPanic
            /\ pointed_frame(LeafEntry(M, LastOp.page)) = hist[i].frame
            /\ flags_of(LeafEntry(M, LastOp.page)) = BitOr(hist[i].flags, PRESENT)

\* C8 happens: frame 0 was mapped with no flags and the page mapped again
C8_Witness ==
    /\ Len(hist) > 1
    /\ \E i \in 1..(Len(hist) - 1) :
          MappedTwice(i) /\ hist[i].frame = 0 /\ hist[i].flags = 0
    /\ LastOp.frame # 0
    /\ panicked = DoubleMapPanic

\* whether the step is an unmap of a page that does not translate or that a
\* huge-page entry covers
UnmapOfUnmappable ==
    /\ Len(hist') = Len(hist) + 1
    /\ hist'[Len(hist')].op = "unmap"
    /\ \/ translate(M, PageStartAddress(hist'[Len(hist')].page)) = None
       \/ CoveredByHuge(M, hist'[Len(hist')].page)

\* C9: unmap(p) panics if p does not translate or a 2MiB or 1GiB entry covers
\* it, and until then no entry of a page table is written and no TLB flush
\* issued
C9_UnmapPanics ==
    [][UnmapOfUnmappable =>
          /\ panicked' # ""
          /\ mem' = mem
          /\ flushes' = flushes]_vars

\* C9 happens: unmap panicked on the page under the 1GiB entry after another
\* operation
C9_Witness ==
    /\ Len(hist) > 1
    /\ LastOp.op = "unmap"
    /\ LastOp.page = PageOf(0, 1, 0, 1)
    /\ CoveredByHuge(M, LastOp.page)
    /\ panicked = "mapping code does not support huge pages"

(***************************************************************************)
(* Claims about ActivePageTable::with.                                     *)
(***************************************************************************)
\* the frame the recursive entry of the active P4 points at
RecursiveSlot(m) ==
    pointed_frame(m.mem[FrameContainingAddress(m.cr3)][RECURSIVE_INDEX])

\* the recursive entry of the active P4 points at the inactive table's P4
\* while f runs and at the active P4 itself otherwise
SlotRedirectedOnlyInside ==
    RecursiveSlot(M) = IF InsideWith THEN ctx.table ELSE FrameContainingAddress(cr3)

\* whether the last operation is a call of with that has just returned
WithReturned ==
    Len(hist) > 0 /\ LastOp.op = "with returns" /\ LastOp.panic = ""

\* C10 as stated: when with has returned, the tables of the active address
\* space and their entries are those of before the call and the temporary
\* page is unmapped; the recursive entry is redirected only while f runs
C10_WithPreservesActive ==
    /\ WithReturned =>
          /\ ActiveTables(M) = ctx.before
          /\ translate_page(M, tmp.page) = None
    /\ SlotRedirectedOnlyInside

\* the frames of the tables with created for the temporary page
CreatedTables == DOMAIN ActiveTables(M) \ DOMAIN ctx.before

\* whether entry i of the table in `frame` is the P4, P3 or P2 entry of the
\* temporary page
OnTemporaryPath(frame, i) ==
    \/ Resolve(M, P4) = frame /\ i = p4_index(tmp.page)
    \/ \E t \in {PathTables(M, tmp.page)} :
          \/ t[2] # None /\ Resolve(M, t[2]) = frame /\ i = p3_index(tmp.page)
          \/ t[3] # None /\ Resolve(M, t[3]) = frame /\ i = p2_index(tmp.page)

\* whether `word` is the entry of a table with created
LeadsToCreated(word) ==
    /\ pointed_frame(word) \in CreatedTables
    /\ flags_of(word) = BitOr(PRESENT, WRITABLE)

\* C10, amended: when with has returned, every table of the active address
\* space is still there with its entries, but for the P4, P3 and P2 entry of
\* the temporary page where it was not present: that now leads to a table
\* with created, empty but for the next such entry; the temporary page is
\* unmapped; the recursive entry is redirected only while f runs
C10_WithPreservesActiveButPath ==
    /\ WithReturned =>
          /\ DOMAIN ctx.before \subseteq DOMAIN ActiveTables(M)
          /\ \A f \in DOMAIN ctx.before, i \in Indices :
                mem[f][i] # ctx.before[f][i] =>
                   /\ ~Contains(flags_of(ctx.before[f][i]), PRESENT)
                   /\ OnTemporaryPath(f, i)
                   /\ LeadsToCreated(mem[f][i])
          /\ \A f \in CreatedTables, i \in Indices :
                mem[f][i] # 0 => OnTemporaryPath(f, i) /\ LeadsToCreated(mem[f][i])
          /\ Cardinality(CreatedTables) <= 3
          /\ LeafEntry(M, tmp.page) = 0
          /\ translate_page(M, tmp.page) = None
    /\ SlotRedirectedOnlyInside

\* C10 happens: with has returned after f mapped a page of the inactive
\* table, and it had to create the tables of its temporary page
C10_Witness ==
    /\ WithReturned
    /\ \E i \in 1..Len(hist) : hist[i].op = "map_to" /\ hist[i].panic = ""
    /\ Cardinality(CreatedTables) = 3
    /\ translate_page(M, tmp.page) = None

\* with has returned and left the active address space as it was
C10_WitnessUnchanged ==
    /\ WithReturned
    /\ \E i \in 1..Len(hist) : hist[i].op = "map_to" /\ hist[i].panic = ""
    /\ ActiveTables(M) = ctx.before

(***************************************************************************)
(* Claims about InactivePageTable::new.                                    *)
(***************************************************************************)
\* whether the last operation is an InactivePageTable::new that returned
InactiveCreated ==
    Len(hist) > 0 /\ LastOp.op = "InactivePageTable::new" /\ LastOp.panic = ""

\* C11: when InactivePageTable::new(frame, ..) has returned, the table in
\* `frame` is zero but for its last entry, which is frame | PRESENT | WRITABLE,
\* whatever the frame held, and the temporary page does not translate: not
\* by the tables and not by the TLB
C11_InactiveNewTable ==
    InactiveCreated =>
        /\ \A i \in Indices \ {RECURSIVE_INDEX} : mem[LastOp.frame][i] = 0
        /\ mem[LastOp.frame][RECURSIVE_INDEX]
              = EntrySet(LastOp.frame, BitOr(PRESENT, WRITABLE))
        /\ translate_page(M, tmp.page) = None
        /\ Resolve(M, tmp.page) = None

\* C11 happens: a second table was made through the same TemporaryPage, in a
\* frame that was full of garbage
C11_Witness ==
    /\ InactiveCreated
    /\ Cardinality(inactive) = 2
    /\ BootMemory(GarbageWord)[LastOp.frame][0] = GarbageWord
    /\ Cardinality({ i \in 1..Len(hist) : hist[i].op = "TemporaryPage::new" }) = 1

(***************************************************************************)
(* remap_kernel (memory/paging/mod.rs), as memory::init calls it.  The     *)
(* boot information names the ELF sections of the kernel image and its own *)
(* place in memory.                                                        *)
(***************************************************************************)
\* the physical address of the VGA text buffer
VGA_BUFFER == 753664

\* ElfSection::is_allocated
is_allocated(section) == "ALLOCATED" \in section.flags

\* a mutant of from_elf_section_flags: executable sections get NO_EXECUTE
FromElfSectionFlagsInverted(section) ==
    BitOr(BitOr(IF "ALLOCATED" \in section.flags THEN PRESENT ELSE 0,
                IF "WRITABLE" \in section.flags THEN WRITABLE ELSE 0),
          IF "EXECUTABLE" \in section.flags THEN NO_EXECUTE ELSE 0)

\* EntryFlags::from_elf_section_flags
from_elf_section_flags(section) ==
    BitOr(BitOr(IF "ALLOCATED" \in section.flags THEN PRESENT ELSE 0,
                IF "WRITABLE" \in section.flags THEN WRITABLE ELSE 0),
          IF "EXECUTABLE" \notin section.flags THEN NO_EXECUTE ELSE 0)

RECURSIVE IdentityMapRange(_, _, _, _)
\* for frame in Frame::range_inclusive(frame, end_frame): identity_map
IdentityMapRange(r, frame, end_frame, flags) ==
    IF r.panic # "" \/ frame > end_frame THEN r
    ELSE Let(identity_map(r.m, r.al, frame, flags), LAMBDA n :
           IdentityMapRange(n, frame + 1, end_frame, flags))

\* the body of remap_kernel's loop over the sections, for one section
MapSection(r, section) ==
    IF ~is_allocated(section) \/ section.size = 0 THEN r
    ELSE IF section.addr % PAGE_SIZE # 0
    THEN Result(r.m, r.al, "sections need to be page aligned", None)
    ELSE IdentityMapRange(r, FrameContainingAddress(section.addr),
                          FrameContainingAddress(section.addr + section.size - 1),
                          from_elf_section_flags(section))

RECURSIVE MapSections(_, _, _)
\* remap_kernel's loop over the sections, from the i-th on
MapSections(r, sections, i) ==
    IF r.panic # "" \/ i > Len(sections) THEN r
    ELSE Let(MapSection(r, sections[i]), LAMBDA n : MapSections(n, sections, i + 1))

\* a mutant of RemapClosure: the boot information is mapped writable as well
RemapClosureWritableInfo(m, al, info) ==
    Then(MapSections(Result(m, al, "", None), info.sections, 1), LAMBDA s :
      Then(identity_map(s.m, s.al, FrameContainingAddress(VGA_BUFFER), WRITABLE),
           LAMBDA v :
             IdentityMapRange(v, FrameContainingAddress(info.start_address),
                              FrameContainingAddress(info.end_address - 1),
                              BitOr(PRESENT, WRITABLE))))

\* the closure remap_kernel hands to with: the sections, the VGA buffer and
\* the boot information are identity-mapped
RemapClosure(m, al, info) ==
    Then(MapSections(Result(m, al, "", None), info.sections, 1), LAMBDA s :
      Then(identity_map(s.m, s.al, FrameContainingAddress(VGA_BUFFER), WRITABLE),
           LAMBDA v :
             IdentityMapRange(v, FrameContainingAddress(info.start_address),
                              FrameContainingAddress(info.end_address - 1),
                              PRESENT)))

\* active_table.with(&mut new_table, &mut temporary_page, closure) in
\* remap_kernel: al is the frame allocator, t the TemporaryPage; the value is
\* the TinyAllocator afterwards
RemapWithClosure(m, al, t, table, info) ==
    Let(with_enter(m, t, table), LAMBDA e :
      IF e.panic # "" THEN Result(e.m, al, e.panic, e.al.st)
      ELSE Let(RemapClosure(e.m, al, info), LAMBDA c :
             IF c.panic # "" THEN Result(c.m, c.al, c.panic, e.al.st)
             ELSE Let(with_exit(c.m, e.al, t, e.val), LAMBDA x :
                    Result(x.m, c.al, x.panic, x.al.st))))

\* a mutant of switch: CR3 is left as it is
SwitchKeepsCr3(m, new_table) == m

\* ActivePageTable::switch: CR3 is written, which empties the TLB
switch(m, new_table) ==
    [m EXCEPT !.cr3 = FrameStartAddress(new_table), !.tlb = <<>>]

(***************************************************************************)
(* The kernel remapped.  The kernel image lies in the frames of the boot   *)
(* tables: a first section of one or two frames, one that is not loaded,   *)
(* an empty one, and a last one, page aligned or not.  The boot            *)
(* information follows, within one frame or across two.                    *)
(***************************************************************************)
SectionFlagSets ==
    { {"ALLOCATED"}, {"ALLOCATED", "WRITABLE"}, {"ALLOCATED", "EXECUTABLE"},
      {"ALLOCATED", "WRITABLE", "EXECUTABLE"} }

KernelSections(flags1, size1, flags2, addr2) ==
    << [addr |-> FrameStartAddress(BootP4), size |-> size1, flags |-> flags1],
       [addr |-> 0, size |-> PAGE_SIZE, flags |-> {"WRITABLE"}],
       [addr |-> FrameStartAddress(BootP3), size |-> 0, flags |-> {"ALLOCATED"}],
       [addr |-> addr2, size |-> HalfPage, flags |-> flags2] >>

\* where the boot information may lie: <<start_address, end_address>>
InfoPlaces ==
    { <<FrameStartAddress(BootInfoFrame) + 8, FrameStartAddress(BootInfoFrame + 1)>>,
      <<FrameStartAddress(BootInfoFrame) + HalfPage,
        FrameStartAddress(BootInfoFrame + 1) + HalfPage>> }

BootInformations ==
    { [sections |-> KernelSections(flags1, size1, flags2, addr2),
       start_address |-> place[1], end_address |-> place[2]] :
        flags1 \in SectionFlagSets, size1 \in {PAGE_SIZE, PAGE_SIZE + HalfPage},
        flags2 \in SectionFlagSets,
        addr2 \in {FrameStartAddress(BootP2), FrameStartAddress(BootP2) + HalfPage},
        place \in InfoPlaces }

\* the sections remap_kernel maps
LoadedSections(info) ==
    { i \in 1..Len(info.sections) :
        is_allocated(info.sections[i]) /\ info.sections[i].size # 0 }

\* kernel_start of memory::init: the least address of an allocated section
KernelStart(info) ==
    CHOOSE a \in { info.sections[i].addr : i \in { j \in 1..Len(info.sections) :
                                                    is_allocated(info.sections[j]) } } :
        \A i \in 1..Len(info.sections) :
            is_allocated(info.sections[i]) => a <= info.sections[i].addr

\* kernel_end of memory::init: the greatest end of an allocated section
KernelEnd(info) ==
    CHOOSE a \in { info.sections[i].addr + info.sections[i].size :
                     i \in { j \in 1..Len(info.sections) :
                               is_allocated(info.sections[j]) } } :
        \A i \in 1..Len(info.sections) :
            is_allocated(info.sections[i])
                => a >= info.sections[i].addr + info.sections[i].size

\* the page of remap_kernel's TemporaryPage (0xffff_ffff in the source: a P4
\* index in the middle, the last index below)
RemapTemporaryPage == PageOf(1, RECURSIVE_INDEX, RECURSIVE_INDEX, RECURSIVE_INDEX)

\* the table remap_kernel has in hand: new_table, old_table after the switch
TableInHand == CHOOSE t \in inactive : TRUE

InitRemap ==
    /\ boot \in BootInformations
    /\ alloc = AreaFrameAllocatorNew(KernelStart(boot), KernelEnd(boot), boot.start_address, boot.end_address, <<[base_addr |-> 0, length |-> NumFrames * PAGE_SIZE]>>)
    /\ returned = <<>>
    /\ last = NoCall
    /\ mem = BootMemory(GarbageWord)
    /\ cr3 = FrameStartAddress(BootP4)
    /\ tlb = <<>>
    /\ flushes = <<>>
    /\ panicked = ""
    /\ hist = <<>>
    /\ tmp = NoTemporaryPage
    /\ inactive = {}
    /\ ctx = NoContext
    /\ pc = "boot"
    /\ range = [start |-> 0, end |-> None]
    /\ stacks = <<>>
    /\ gdt = [table |-> <<>>, next_free |-> 0]
    /\ tss = NoTss
    /\ cpu = CpuAtBoot
    /\ intr = NoInterruptsInit
    /\ vga = NoWriter

\* remap_kernel up to new_table: TemporaryPage::new, a frame allocated,
\* InactivePageTable::new
RemapPrepare ==
    /\ panicked = ""
    /\ pc = "boot"
    /\ \E t \in {TinyAllocatorNew(AreaAllocator(alloc))} :
          \E a \in {Allocate(t.al)} :
             /\ \E r \in {IF a.frame = None
                          THEN Result(M, TinyAllocator(t.frames),
                                      "could not allocate frame", None)
                          ELSE inactive_page_table_new(
                                   M, [page |-> RemapTemporaryPage,
                                       allocator |-> t.frames], a.frame)} :
                   /\ Commit(r, Op("InactivePageTable::new", RemapTemporaryPage,
                                   a.frame, 0))
                   /\ tmp' = [page |-> RemapTemporaryPage, allocator |-> r.al.st]
                   /\ inactive' = IF r.panic = "" THEN {a.frame} ELSE {}
             /\ CommitAllocator(a.al)
    /\ pc' = "prepared"
    /\ UNCHANGED <<ctx, boot, range, stacks, gdt, tss, cpu, intr, vga>>

\* remap_kernel's call of with, closure and all
RemapWith ==
    /\ panicked = ""
    /\ pc = "prepared"
    /\ \E r \in {RemapWithClosure(M, AreaAllocator(alloc), tmp, TableInHand, boot)} :
          /\ Commit(r, Op("with", tmp.page, TableInHand, 0))
          /\ CommitAllocator(r.al)
          /\ tmp' = [tmp EXCEPT !.allocator = r.val]
          /\ ctx' = [phase |-> IF r.panic = "" THEN "returned" ELSE "panicked",
                     table |-> TableInHand,
                     original |-> FrameContainingAddress(cr3),
                     before |-> ActiveTables(M)]
    /\ pc' = "mapped"
    /\ UNCHANGED <<inactive, boot, range, stacks, gdt, tss, cpu, intr, vga>>

\* remap_kernel's call of switch
RemapSwitch ==
    /\ panicked = ""
    /\ pc = "mapped"
    /\ \E m \in {switch(M, TableInHand)} :
          /\ cr3' = m.cr3
          /\ tlb' = m.tlb
          /\ mem' = m.mem
          /\ flushes' = m.flushes
    /\ inactive' = {FrameContainingAddress(cr3)}
    /\ hist' = Append(hist, Op("switch", None, TableInHand, 0))
    /\ pc' = "switched"
    /\ UNCHANGED <<alloc, returned, last, tmp, ctx, panicked, boot, range, stacks, gdt, tss, cpu, intr, vga>>

\* remap_kernel's end: the page of the old P4 is unmapped
RemapGuard ==
    /\ panicked = ""
    /\ pc = "switched"
    /\ \E page \in {PageContainingAddress(FrameStartAddress(TableInHand))} :
          \E r \in {unmap(M, AreaAllocator(alloc), page)} :
             Commit(r, Op("unmap", page, None, 0)) /\ CommitAllocator(r.al)
    /\ pc' = "remapped"
    /\ UNCHANGED <<tmp, inactive, ctx, boot, range, stacks, gdt, tss, cpu, intr, vga>>

NextRemap ==
    \/ RemapPrepare
    \/ RemapWith
    \/ RemapSwitch
    \/ RemapGuard

SpecRemap == InitRemap /\ [][NextRemap]_vars

(***************************************************************************)
(* Claims about remap_kernel.                                              *)
(***************************************************************************)
\* remap_kernel has returned
Remapped == pc = "remapped" /\ panicked = ""

\* the frames of a section that remap_kernel maps
SectionFrames(section) ==
    FrameContainingAddress(section.addr)
        ..FrameContainingAddress(section.addr + section.size - 1)

\* the frames of the boot information
InfoFrames ==
    FrameContainingAddress(boot.start_address)
        ..FrameContainingAddress(boot.end_address - 1)

\* the flags C12 derives from a section
SectionFlags(section) ==
    BitOr(BitOr(PRESENT, IF "WRITABLE" \in section.flags THEN WRITABLE ELSE 0),
          IF "EXECUTABLE" \in section.flags THEN 0 ELSE NO_EXECUTE)

\* whether the active address space maps the page of `frame` to `frame`, the
\* leaf entry carrying exactly `flags`
IdentityMapped(frame, flags) ==
    \E leaf \in {LeafEntry(M, PageContainingAddress(FrameStartAddress(frame)))} :
        /\ leaf # None
        /\ pointed_frame(leaf) = frame
        /\ flags_of(leaf) = flags
        /\ Walk(M, PageContainingAddress(FrameStartAddress(frame))) = frame

\* the page of the bootloader's P4, the guard page to be
OldP4Page == PageContainingAddress(FrameStartAddress(BootP4))

\* whether the active address space does not map `page`
Unmapped(page) ==
    /\ translate_page(M, page) = None
    /\ Resolve(M, page) = None

\* C12 as stated: when remap_kernel has returned, every frame of every loaded
\* section is identity-mapped with PRESENT, WRITABLE as the section is
\* writable and NO_EXECUTE as it is not executable
C12_SectionsMapped ==
    Remapped =>
        \A i \in LoadedSections(boot) :
            \A frame \in SectionFrames(boot.sections[i]) :
                IdentityMapped(frame, SectionFlags(boot.sections[i]))

\* C12, amended: the same for every frame but that of the bootloader's P4,
\* whose page is unmapped
C12_SectionsMappedButGuard ==
    Remapped =>
        /\ \A i \in LoadedSections(boot) :
              \A frame \in SectionFrames(boot.sections[i]) \ {BootP4} :
                  IdentityMapped(frame, SectionFlags(boot.sections[i]))
        /\ Unmapped(OldP4Page)

\* C12 happens: an executable section of two frames and a writable one were
\* mapped
C12_Witness ==
    /\ Remapped
    /\ boot.sections[1].flags = {"ALLOCATED", "EXECUTABLE"}
    /\ boot.sections[1].size > PAGE_SIZE
    /\ boot.sections[4].flags = {"ALLOCATED", "WRITABLE"}
    /\ IdentityMapped(BootP3, PRESENT)
    /\ IdentityMapped(BootP2, BitOr(BitOr(PRESENT, WRITABLE), NO_EXECUTE))

\* the frames C13 names: those of the loaded sections, of the VGA buffer
\* and of the boot information
RemappedFrames ==
    UNION { SectionFrames(boot.sections[i]) : i \in LoadedSections(boot) }
        \cup {FrameContainingAddress(VGA_BUFFER)} \cup InfoFrames

\* whether an entry is present and writable and lacks NO_EXECUTE
WritableAndExecutable(entry) ==
    /\ Contains(flags_of(entry), BitOr(PRESENT, WRITABLE))
    /\ ~Contains(flags_of(entry), NO_EXECUTE)

\* C13: when remap_kernel has returned, no leaf entry of a section's frame,
\* of the VGA buffer or of the boot information is present and writable
\* without NO_EXECUTE
C13_WriteXorExecute ==
    Remapped =>
        \A frame \in RemappedFrames :
            \E leaf \in {LeafEntry(M, PageContainingAddress(FrameStartAddress(frame)))} :
                leaf = None \/ ~WritableAndExecutable(leaf)

\* C14: when remap_kernel has returned, the VGA buffer's frame is
\* identity-mapped present and writable and every frame of the boot
\* information is identity-mapped present and not writable
C14_VgaAndInfoMapped ==
    Remapped =>
        /\ IdentityMapped(FrameContainingAddress(VGA_BUFFER), BitOr(PRESENT, WRITABLE))
        /\ \A frame \in InfoFrames : IdentityMapped(frame, PRESENT)

\* C14 happens: the boot information lay across two frames
C14_Witness ==
    /\ Remapped
    /\ Cardinality(InfoFrames) = 2
    /\ IdentityMapped(BootInfoFrame + 1, PRESENT)
    /\ Walk(M, PageContainingAddress(VGA_BUFFER)) = FrameContainingAddress(VGA_BUFFER)

\* C15: when remap_kernel has returned, CR3 holds the new P4 and the page of
\* the bootloader's P4 does not translate; it was unmapped by the last step,
\* right after the switch: once CR3 is switched and until then the page is
\* still mapped, and before the switch CR3 holds the bootloader's P4
C15_GuardAfterSwitch ==
    /\ Remapped =>
          /\ cr3 = FrameStartAddress(ctx.table)
          /\ ctx.table # BootP4
          /\ Unmapped(OldP4Page)
          /\ LastOp.op = "unmap" /\ LastOp.page = OldP4Page
          /\ hist[Len(hist) - 1].op = "switch"
    /\ (pc = "switched" /\ panicked = "") =>
          /\ cr3 = FrameStartAddress(ctx.table)
          /\ Walk(M, OldP4Page) = BootP4
    /\ (pc \in {"boot", "prepared", "mapped"} /\ panicked = "") =>
          /\ cr3 = FrameStartAddress(BootP4)
          /\ Walk(M, OldP4Page) = BootP4

\* C15 happens: remap_kernel has returned, the old table in hand
C15_Witness ==
    /\ Remapped
    /\ inactive = {BootP4}
    /\ cr3 # FrameStartAddress(BootP4)
    /\ Walk(M, OldP4Page) = None
    /\ flushes[Len(flushes)] = OldP4Page

(***************************************************************************)
(* memory/stack_allocator.rs.  A PageIter is the numbers of its first and  *)
(* last page; a Stack is its top and bottom address.                       *)
(***************************************************************************)
\* PageIter::next
PageIterNext(it) ==
    IF it.start <= it.end
    THEN [it |-> [it EXCEPT !.start = @ + 1], page |-> it.start]
    ELSE [it |-> it, page |-> None]

RECURSIVE PageIterNth(_, _)
\* Iterator::nth on a PageIter: n pages are passed over, the next is the value
PageIterNth(it, n) ==
    Let(PageIterNext(it), LAMBDA x :
      IF x.page = None \/ n = 0 THEN x ELSE PageIterNth(x.it, n - 1))

\* a mutant of TakeGuardPage: no page is set aside
TakeNoGuardPage(it) == [it |-> it, page |-> it.start]

\* alloc_stack's guard_page = range.next()
TakeGuardPage(it) == PageIterNext(it)

\* Option<Stack>::None, as a Stack with no addresses
NoStack == [top |-> None, bottom |-> None]

\* a mutant of StackNew: the stack ends where its last page begins
StackNewTopAtLastPage(stack_start, stack_end) ==
    [top |-> PageStartAddress(stack_end), bottom |-> PageStartAddress(stack_start)]

\* Stack::new(end.start_address() + PAGE_SIZE, start.start_address())
StackNew(stack_start, stack_end) ==
    [top |-> PageStartAddress(stack_end) + PAGE_SIZE,
     bottom |-> PageStartAddress(stack_start)]

\* a mutant of RangeIfNone: the pages looked at are gone
RangeAdvancedIfNone(own, advanced) == advanced

\* the allocator's range when alloc_stack returns None: its own, not the clone
RangeIfNone(own, advanced) == own

RECURSIVE MapStackPages(_, _, _)
\* for page in Page::range_inclusive(page, stack_end): map(page, WRITABLE)
MapStackPages(r, page, stack_end) ==
    IF r.panic # "" \/ page > stack_end THEN r
    ELSE Let(map(r.m, r.al, page, WRITABLE), LAMBDA n :
           MapStackPages(n, page + 1, stack_end))

\* alloc_stack from the match on: g, s and e are what the clone of the range
\* gave for the guard page, the first and the last page of the stack
AllocStackMatch(m, al, own, g, s, e) ==
    IF g.page = None \/ s.page = None \/ e.page = None
    THEN Result(m, al, "", [stack |-> NoStack, range |-> RangeIfNone(own, e.it)])
    ELSE Let(MapStackPages(Result(m, al, "", None), s.page, e.page), LAMBDA r :
           IF r.panic # ""
           THEN Result(r.m, r.al, r.panic, [stack |-> NoStack, range |-> e.it])
           ELSE IF PageStartAddress(e.page) + PAGE_SIZE <= PageStartAddress(s.page)
           THEN Result(r.m, r.al, "assertion failed: top > bottom",
                       [stack |-> NoStack, range |-> e.it])
           ELSE Result(r.m, r.al, "",
                       [stack |-> StackNew(s.page, e.page), range |-> e.it]))

\* StackAllocator::alloc_stack; its value is the Stack (or None) and the
\* allocator's range afterwards
alloc_stack(m, al, own, size_in_pages) ==
    IF size_in_pages = 0
    THEN Result(m, al, "", [stack |-> NoStack, range |-> own])
    ELSE Let(TakeGuardPage(own), LAMBDA g :
           Let(PageIterNext(g.it), LAMBDA s :
             Let(IF size_in_pages = 1 THEN s
                 ELSE PageIterNth(s.it, size_in_pages - 2), LAMBDA e :
               AllocStackMatch(m, al, own, g, s, e))))

(***************************************************************************)
(* A StackAllocator in use: its range lies where nothing is mapped, and    *)
(* stacks of a few sizes are asked of it until its pages run out.          *)
(***************************************************************************)
MaxStackOps == 4

\* the number of pages of the range after its first (100 in memory::init)
StackRangeSpan == 5

\* the sizes asked for go up to this
MaxStackSize == 3

\* the first page of the range: heap_end_page + 1 in memory::init
StackRangeStart == PageOf(0, 2, 0, 1)

\* the pages of the range
StackRange == StackRangeStart..(StackRangeStart + StackRangeSpan)

InitStack ==
    /\ InitMachine
    /\ tmp = NoTemporaryPage
    /\ inactive = {}
    /\ ctx = NoContext
    /\ boot = [sections |-> <<>>, start_address |-> 0, end_address |-> 0]
    /\ pc = "ready"
    /\ range = [start |-> StackRangeStart, end |-> StackRangeStart + StackRangeSpan]
    /\ stacks = <<>>
    /\ gdt = [table |-> <<>>, next_free |-> 0]
    /\ tss = NoTss
    /\ cpu = CpuAtBoot
    /\ intr = NoInterruptsInit
    /\ vga = NoWriter

\* MemoryController::alloc_stack
AllocStack(size_in_pages) ==
    /\ panicked = ""
    /\ Len(hist) < MaxStackOps
    /\ \E r \in {alloc_stack(M, AreaAllocator(alloc), range, size_in_pages)} :
          /\ Commit(r, Op("alloc_stack", range.start, None, 0))
          /\ CommitAllocator(r.al)
          /\ range' = r.val.range
          /\ stacks' = Append(stacks, [size |-> size_in_pages, stack |-> r.val.stack,
                                       panic |-> r.panic])
    /\ UNCHANGED <<tmp, inactive, ctx, boot, pc, gdt, tss, cpu, intr, vga>>

NextStack == \E size_in_pages \in 0..MaxStackSize : AllocStack(size_in_pages)

SpecStack == InitStack /\ [][NextStack]_vars

(***************************************************************************)
(* The stacks handed out.                                                  *)
(***************************************************************************)
\* the positions in stacks of the calls that returned a Stack
Handed == { i \in 1..Len(stacks) : stacks[i].stack # NoStack }

\* i and j are successive successful calls
Successive(i, j) ==
    /\ i \in Handed
    /\ j \in Handed
    /\ i < j
    /\ \A k \in Handed : ~(i < k /\ k < j)

\* C16: of two stacks handed out one after the other, the later one's bottom
\* is one page above the earlier one's top, and the page between them (the
\* one at the earlier top) is not mapped; the page directly below the first
\* stack's bottom is not mapped either.
C16_GuardPages ==
    /\ \A i, j \in Handed :
          Successive(i, j) =>
             /\ stacks[j].stack.bottom = stacks[i].stack.top + PAGE_SIZE
             /\ Unmapped(PageContainingAddress(stacks[i].stack.top))
    /\ \A i \in Handed :
          (\A k \in Handed : i <= k) =>
             Unmapped(PageContainingAddress(stacks[i].stack.bottom - PAGE_SIZE))

\* three stacks have been handed out, so two guard pages lie between stacks
C16_Witness == Cardinality(Handed) >= 3 /\ panicked = ""

\* the machine after the step
MNext == [mem |-> mem', cr3 |-> cr3', tlb |-> tlb', flushes |-> flushes']

\* the frames the step took from the allocator
TakenInStep == { returned'[i] : i \in (Len(returned) + 1)..Len(returned') }

\* the pages looked at around a call: the range and a page on either side
StackPages == (StackRangeStart - 1)..(StackRangeStart + StackRangeSpan + 1)

\* the last call returned a Stack
StackReturned ==
    /\ stacks' # stacks
    /\ stacks'[Len(stacks')].stack # NoStack

\* the pages of the Stack the step returned
PagesOfStack(st) ==
    { p \in StackPages : st.bottom <= PageStartAddress(p) /\ PageStartAddress(p) < st.top }

\* C17: a call alloc_stack(n), n >= 1, that returns a Stack returns one whose
\* top and bottom are multiples of 4096 with top - bottom = n * 4096, and the
\* step maps exactly the n pages of [bottom, top): each was unmapped, is now
\* PRESENT and WRITABLE and points to a frame taken from the allocator in this
\* step, no two to the same frame, and no other page changes its translation.
C17_StackMapped ==
    [][StackReturned =>
         \E e \in {stacks'[Len(stacks')]} :
            /\ e.size >= 1
            /\ e.stack.top % PAGE_SIZE = 0
            /\ e.stack.bottom % PAGE_SIZE = 0
            /\ e.stack.top - e.stack.bottom = e.size * PAGE_SIZE
            /\ Cardinality(PagesOfStack(e.stack)) = e.size
            /\ \A p \in PagesOfStack(e.stack) :
                  /\ translate_page(M, p) = None
                  /\ LeafEntry(MNext, p) # None
                  /\ flags_of(LeafEntry(MNext, p)) = BitOr(PRESENT, WRITABLE)
                  /\ pointed_frame(LeafEntry(MNext, p)) \in TakenInStep
                  /\ pointed_frame(LeafEntry(MNext, p)) \notin { returned[i] : i \in 1..Len(returned) }
                  /\ Walk(MNext, p) = pointed_frame(LeafEntry(MNext, p))
            /\ \A p, q \in PagesOfStack(e.stack) :
                  p # q => translate_page(MNext, p) # translate_page(MNext, q)
            /\ \A p \in StackPages \ PagesOfStack(e.stack) :
                  translate_page(MNext, p) = translate_page(M, p)
    ]_vars

\* a stack of one page and a stack of several pages have been handed out
C17_Witness ==
    /\ \E i \in Handed : stacks[i].size = 1
    /\ \E i \in Handed : stacks[i].size >= 2
    /\ panicked = ""

\* the pages a PageIter still has
Remaining(it) == IF it.start <= it.end THEN it.end - it.start + 1 ELSE 0

\* the step is a call of alloc_stack(size) that the range cannot serve
StackRefusable(size) ==
    /\ stacks' # stacks
    /\ stacks'[Len(stacks')].size = size
    /\ (size = 0 \/ Remaining(range) < size + 1)

\* C18: a call alloc_stack(size) with size = 0, or with fewer than size + 1
\* pages left in the range, returns None, maps nothing, takes no frame and
\* leaves the range as it was, so that every request that fits in the pages
\* left still succeeds afterwards.
C18_NoneLeavesAll ==
    [][\A size \in 0..MaxStackSize :
          StackRefusable(size) =>
             /\ stacks'[Len(stacks')].stack = NoStack
             /\ stacks'[Len(stacks')].panic = ""
             /\ MNext = M
             /\ alloc' = alloc
             /\ returned' = returned
             /\ range' = range
             /\ \A n \in 1..MaxStackSize :
                   n + 1 <= Remaining(range) =>
                      \E r \in {alloc_stack(MNext, AreaAllocator(alloc'), range', n)} :
                         r.panic = "" /\ r.val.stack # NoStack
    ]_vars

\* a request too large for the pages left was refused while pages were left,
\* and a later, smaller request was served
C18_Witness ==
    \E i, j \in 1..Len(stacks) :
       /\ i < j
       /\ stacks[i].size >= 2
       /\ stacks[i].stack = NoStack
       /\ stacks[j].stack # NoStack
       /\ stacks[j].size < stacks[i].size

(***************************************************************************)
(* interrupts/gdt.rs.  A Gdt is its table, indexed from 0, and next_free;  *)
(* a descriptor is its kind and its one or two words.                      *)
(***************************************************************************)
\* the length of Gdt's table
GDT_LEN == 16

\* a mutant of GdtNew: the first free entry is entry 0
GdtNewFromZero == [table |-> [i \in 0..(GDT_LEN - 1) |-> 0], next_free |-> 0]

\* Gdt::new
GdtNew == [table |-> [i \in 0..(GDT_LEN - 1) |-> 0], next_free |-> 1]

\* Gdt::push; its value is the index written
push(g, value) ==
    IF g.next_free < GDT_LEN
    THEN [gdt |-> [table |-> [g.table EXCEPT ![g.next_free] = value],
                   next_free |-> g.next_free + 1],
          panic |-> "", val |-> g.next_free]
    ELSE [gdt |-> g, panic |-> "GDT full", val |-> None]

\* Gdt::add_entry; its value is the index of the selector returned
add_entry(g, entry) ==
    IF entry.kind = "UserSegment" THEN push(g, entry.low)
    ELSE Let(push(g, entry.low), LAMBDA low :
           IF low.panic # "" THEN low
           ELSE Let(push(low.gdt, entry.high), LAMBDA high :
                  [high EXCEPT !.val = IF high.panic # "" THEN None ELSE low.val]))

(***************************************************************************)
(* A Gdt to which descriptors are added until it is full.                  *)
(***************************************************************************)
\* the descriptors added: a code segment and two task state segments, one
\* of them below 4 GiB, whose high word is 0
Descriptors ==
    { [kind |-> "UserSegment", low |-> 1, high |-> 0],
      [kind |-> "SystemSegment", low |-> 2, high |-> 0],
      [kind |-> "SystemSegment", low |-> 2, high |-> 3] }

InitGdt ==
    /\ InitMachine
    /\ tmp = NoTemporaryPage
    /\ inactive = {}
    /\ ctx = NoContext
    /\ boot = [sections |-> <<>>, start_address |-> 0, end_address |-> 0]
    /\ pc = "gdt"
    /\ range = [start |-> 0, end |-> None]
    /\ stacks = <<>>
    /\ gdt = GdtNew
    /\ tss = NoTss
    /\ cpu = CpuAtBoot
    /\ intr = NoInterruptsInit
    /\ vga = NoWriter

\* a call of Gdt::add_entry
AddEntry(entry) ==
    /\ panicked = ""
    /\ \E r \in {add_entry(gdt, entry)} :
          /\ gdt' = r.gdt
          /\ panicked' = r.panic
          /\ hist' = Append(hist, [entry |-> entry, index |-> r.val, panic |-> r.panic])
    /\ UNCHANGED <<allocVars, mem, cr3, tlb, flushes, tmp, inactive, ctx,
                   boot, pc, range, stacks, tss, cpu, intr, vga>>

NextGdt == \E entry \in Descriptors : AddEntry(entry)

SpecGdt == InitGdt /\ [][NextGdt]_vars

\* the entries a descriptor takes
Slots(entry) == IF entry.kind = "UserSegment" THEN 1 ELSE 2

RECURSIVE SlotsBefore(_)
\* the entries taken by the first i - 1 descriptors added
SlotsBefore(i) == IF i <= 1 THEN 0 ELSE SlotsBefore(i - 1) + Slots(hist[i - 1].entry)

\* C19: the k-th descriptor added gets the index 1 + the entries taken by the
\* descriptors before it (so indices start at 1 and grow strictly, by one
\* after a user segment and by two after a system segment), its words are in
\* the table at that index, entry 0 stays 0, and add_entry panics with
\* 'GDT full' exactly when the descriptor does not fit below entry 16.
C19_GdtIndices ==
    /\ gdt.table[0] = 0
    /\ \A i \in 1..Len(hist) :
          \E e \in {hist[i]} :
             IF 1 + SlotsBefore(i) + Slots(e.entry) <= GDT_LEN
             THEN /\ e.panic = ""
                  /\ e.index = 1 + SlotsBefore(i)
                  /\ gdt.table[e.index] = e.entry.low
                  /\ e.entry.kind = "SystemSegment" =>
                        gdt.table[e.index + 1] = e.entry.high
                  /\ i > 1 => e.index > hist[i - 1].index
             ELSE e.panic = "GDT full" /\ i = Len(hist)

\* user and system segments were added, the table filled up, and a system
\* segment that found one entry left made add_entry panic
C19_Witness ==
    /\ panicked = "GDT full"
    /\ gdt.next_free = GDT_LEN
    /\ hist[Len(hist)].entry.kind = "SystemSegment"
    /\ 1 + SlotsBefore(Len(hist)) = GDT_LEN - 1
    /\ \E i \in 1..Len(hist) : hist[i].entry.kind = "UserSegment" /\ hist[i].index > 1

(***************************************************************************)
(* A TinyAllocator on its own: made by TemporaryPage::new, then asked for  *)
(* frames and given frames back.                                           *)
(***************************************************************************)
MaxTinyOps == 7

\* a frame that did not come from the TinyAllocator
ForeignFrame == NumFrames - 1

\* the frames the TinyAllocator holds
HeldFrames == { tmp.allocator[i] : i \in 1..Len(tmp.allocator) } \ {None}

\* the frames that can be given to deallocate_frame: those the TinyAllocator
\* was made of and does not hold, and the foreign one
GivableFrames ==
    ({ returned[i] : i \in 1..Len(returned) } \cup {ForeignFrame}) \ HeldFrames

InitTiny ==
    /\ InitMachine
    /\ tmp = NoTemporaryPage
    /\ inactive = {}
    /\ ctx = NoContext
    /\ boot = [sections |-> <<>>, start_address |-> 0, end_address |-> 0]
    /\ pc = "tiny"
    /\ range = [start |-> 0, end |-> None]
    /\ stacks = <<>>
    /\ gdt = [table |-> <<>>, next_free |-> 0]
    /\ tss = NoTss
    /\ cpu = CpuAtBoot
    /\ intr = NoInterruptsInit
    /\ vga = NoWriter

\* TemporaryPage::new, which makes the TinyAllocator
TinyNew ==
    /\ Len(hist) < MaxTinyOps
    /\ tmp = NoTemporaryPage
    /\ NewTemporaryPage(RemapTemporaryPage)

\* TinyAllocator::allocate_frame
TinyAllocate ==
    /\ Len(hist) < MaxTinyOps
    /\ panicked = ""
    /\ tmp # NoTemporaryPage
    /\ \E r \in {TinyAllocateFrame(tmp.allocator)} :
          /\ tmp' = [tmp EXCEPT !.allocator = r.alloc]
          /\ hist' = Append(hist, Op("allocate_frame", None, r.frame, 0))
    /\ UNCHANGED <<allocVars, mem, cr3, tlb, flushes, inactive, ctx, panicked, kernelVars>>

\* TinyAllocator::deallocate_frame
TinyDeallocate(frame) ==
    /\ Len(hist) < MaxTinyOps
    /\ panicked = ""
    /\ tmp # NoTemporaryPage
    /\ frame \in GivableFrames
    /\ \E r \in {TinyDeallocateFrame(tmp.allocator, frame)} :
          /\ tmp' = [tmp EXCEPT !.allocator = r.alloc]
          /\ panicked' = r.panic
          /\ hist' = Append(hist, [Op("deallocate_frame", None, frame, 0)
                                     EXCEPT !.panic = r.panic])
    /\ UNCHANGED <<allocVars, mem, cr3, tlb, flushes, inactive, ctx, kernelVars>>

NextTiny ==
    \/ TinyNew
    \/ TinyAllocate
    \/ \E frame \in 0..(NumFrames - 1) : TinyDeallocate(frame)

SpecTiny == InitTiny /\ [][NextTiny]_vars

\* the step is an allocate_frame on a TinyAllocator that holds no frame
FourthRequest ==
    /\ tmp # NoTemporaryPage
    /\ HeldFrames = {}
    /\ hist' # hist
    /\ hist'[Len(hist')].op = "allocate_frame"

\* C20 as stated: an allocate_frame on a TinyAllocator whose three frames are
\* all handed out panics.
C20_FourthFramePanics == [][FourthRequest => panicked' # ""]_vars

\* C20 as the code has it: an allocate_frame on a TinyAllocator whose three
\* frames are all handed out returns None, without a panic, and leaves the
\* allocator with its three empty places.
C20_FourthFrameNone ==
    [][FourthRequest =>
          /\ hist'[Len(hist')].frame = None
          /\ hist'[Len(hist')].panic = ""
          /\ panicked' = ""
          /\ tmp' = tmp
    ]_vars

\* three frames were handed out one after the other, none was given back, and
\* a fourth was asked for
C20_Witness ==
    /\ Len(hist) >= 5
    /\ \A i \in (Len(hist) - 3)..Len(hist) : hist[i].op = "allocate_frame"
    /\ \A i \in (Len(hist) - 3)..(Len(hist) - 1) : hist[i].frame # None
    /\ hist[Len(hist) - 4].op = "TemporaryPage::new"

(***************************************************************************)
(* interrupts/mod.rs.  init is taken statement by statement; pc tells the  *)
(* statement the running call has reached ("ready" when none is running).  *)
(* The statics TSS and GDT are spin::Once cells: call_once runs its        *)
(* closure only while the cell is empty.  A descriptor's words are scaled  *)
(* to small numbers; a SegmentSelector at ring 0 is its index * 8.         *)
(***************************************************************************)
DOUBLE_FAULT_IST_INDEX == 0

\* the static GDT before call_once has run
NoGdt == [table |-> <<>>, next_free |-> 0]

\* Descriptor::kernel_code_segment
kernel_code_segment == [kind |-> "UserSegment", low |-> 1, high |-> 0]

\* Descriptor::tss_segment
tss_segment == [kind |-> "SystemSegment", low |-> 2, high |-> 0]

\* SegmentSelector::new(index, PrivilegeLevel::Ring0)
SegmentSelectorNew(index) == index * 8

\* the calls of init made so far go up to this
MaxInitCalls == 2

\* the stacks handed out before init is called go up to this
MaxEarlierStacks == 2

InitInterrupts ==
    /\ InitMachine
    /\ tmp = NoTemporaryPage
    /\ inactive = {}
    /\ ctx = NoContext
    /\ boot = [sections |-> <<>>, start_address |-> 0, end_address |-> 0]
    /\ pc = "ready"
    /\ range = [start |-> StackRangeStart, end |-> StackRangeStart + StackRangeSpan]
    /\ stacks = <<>>
    /\ gdt = NoGdt
    /\ tss = NoTss
    /\ cpu = CpuAtBoot
    /\ intr = NoInterruptsInit
    /\ vga = NoWriter

\* a statement of init that leaves the memory alone
InitStatement(from, to, op) ==
    /\ panicked = ""
    /\ pc = from
    /\ pc' = to
    /\ hist' = Append(hist, Op(op, None, None, 0))
    /\ UNCHANGED <<allocVars, mem, cr3, tlb, flushes, panicked, tmp, inactive, ctx,
                   boot, range, stacks>>

\* MemoryController::alloc_stack called by other code before init
EarlierStack(size_in_pages) ==
    /\ pc = "ready"
    /\ intr.calls = 0
    /\ Len(hist) < MaxEarlierStacks
    /\ AllocStack(size_in_pages)

\* init is called; memory_controller.alloc_stack(1).expect(..)
InitAllocStack ==
    /\ panicked = ""
    /\ pc = "ready"
    /\ intr.calls < MaxInitCalls
    /\ \E r \in {alloc_stack(M, AreaAllocator(alloc), range, 1)} :
          \E p \in {IF r.panic = "" /\ r.val.stack = NoStack
                    THEN "could not allocate double fault stack" ELSE r.panic} :
             /\ Commit([r EXCEPT !.panic = p], Op("alloc_stack", range.start, None, 0))
             /\ CommitAllocator(r.al)
             /\ range' = r.val.range
             /\ stacks' = Append(stacks, [size |-> 1, stack |-> r.val.stack, panic |-> p])
             /\ intr' = [calls |-> intr.calls + 1, double_fault_stack |-> r.val.stack,
                         code_selector |-> 0, tss_selector |-> 0]
    /\ pc' = "stack"
    /\ UNCHANGED <<tmp, inactive, ctx, boot, gdt, tss, cpu, vga>>

\* TSS.call_once(..)
InitTss ==
    /\ InitStatement("stack", "tss", "TSS.call_once")
    /\ tss' = IF tss = NoTss
              THEN [interrupt_stack_table |-> <<intr.double_fault_stack.top>>]
              ELSE tss
    /\ UNCHANGED <<gdt, cpu, intr, vga>>

\* GDT.call_once(..), after the two selectors have been set to SegmentSelector(0)
InitGdtOnce ==
    /\ InitStatement("tss", "gdt", "GDT.call_once")
    /\ IF gdt = NoGdt
       THEN \E code \in {add_entry(GdtNew, kernel_code_segment)} :
               \E task \in {add_entry(code.gdt, tss_segment)} :
                  /\ gdt' = task.gdt
                  /\ intr' = [intr EXCEPT !.code_selector = SegmentSelectorNew(code.val),
                                          !.tss_selector = SegmentSelectorNew(task.val)]
       ELSE UNCHANGED <<gdt, intr>>
    /\ UNCHANGED <<tss, cpu, vga>>

\* gdt.load()
InitLoadGdt ==
    /\ InitStatement("gdt", "gdt loaded", "lgdt")
    /\ cpu' = [cpu EXCEPT !.gdtr = gdt.table]
    /\ UNCHANGED <<gdt, tss, intr, vga>>

\* set_cs(code_selector)
InitSetCs ==
    /\ InitStatement("gdt loaded", "cs", "set_cs")
    /\ cpu' = [cpu EXCEPT !.cs = intr.code_selector]
    /\ UNCHANGED <<gdt, tss, intr, vga>>

\* load_tss(tss_selector)
InitLoadTss ==
    /\ InitStatement("cs", "tr", "load_tss")
    /\ cpu' = [cpu EXCEPT !.tr = intr.tss_selector]
    /\ UNCHANGED <<gdt, tss, intr, vga>>

\* a mutant of InitLoadIdt: the IDT is loaded as soon as the stack is there
InitLoadIdtFirst ==
    /\ InitStatement("stack", "ready", "lidt")
    /\ cpu' = [cpu EXCEPT !.idtr = TRUE]
    /\ UNCHANGED <<gdt, tss, intr, vga>>

\* IDT.load(); init returns
InitLoadIdt ==
    /\ InitStatement("tr", "ready", "lidt")
    /\ cpu' = [cpu EXCEPT !.idtr = TRUE]
    /\ UNCHANGED <<gdt, tss, intr, vga>>

NextInterrupts ==
    \/ \E size_in_pages \in 0..MaxStackSize : EarlierStack(size_in_pages)
    \/ InitAllocStack
    \/ InitTss
    \/ InitGdtOnce
    \/ InitLoadGdt
    \/ InitSetCs
    \/ InitLoadTss
    \/ InitLoadIdt

SpecInterrupts == InitInterrupts /\ [][NextInterrupts]_vars

\* the step begins a call of init after an earlier call
SecondCall == intr.calls >= 1 /\ intr'.calls = intr.calls + 1

\* C21 as stated: a call of init after the first panics at once, so that it
\* allocates no stack and no later statement of it reloads CS or the task
\* register; the TSS and the GDT, once constructed, are never constructed
\* again.
C21_InitOneShot ==
    [][/\ SecondCall => (panicked' # "" /\ stacks' = stacks /\ range' = range)
       /\ intr.calls >= 2 => (cpu'.cs = cpu.cs /\ cpu'.tr = cpu.tr)
       /\ tss # NoTss => tss' = tss
       /\ gdt.next_free # 0 => gdt' = gdt
    ]_vars

\* the address IST entry DOUBLE_FAULT_IST_INDEX holds is the top of a stack
\* alloc_stack returned whose one page is mapped and below whose bottom lies
\* an unmapped page
IstOnGuardedStack ==
    /\ tss # NoTss
    /\ \E i \in Handed :
          /\ stacks[i].size = 1
          /\ stacks[i].stack.top = tss.interrupt_stack_table[DOUBLE_FAULT_IST_INDEX + 1]
          /\ ~Unmapped(PageContainingAddress(stacks[i].stack.top - PAGE_SIZE))
          /\ Walk(M, PageContainingAddress(stacks[i].stack.top - PAGE_SIZE)) # None
          /\ Unmapped(PageContainingAddress(stacks[i].stack.bottom - PAGE_SIZE))

\* the GDT holds the code segment at index 1 and the TSS descriptor at 2 and 3
GdtBuilt ==
    /\ gdt.next_free = 4
    /\ gdt.table[0] = 0
    /\ gdt.table[1] = kernel_code_segment.low
    /\ gdt.table[2] = tss_segment.low
    /\ gdt.table[3] = tss_segment.high

\* C27: in every call of init the statements come in the order: stack, TSS,
\* GDT, lgdt, set_cs, load_tss, lidt.  So the TSS exists only with IST entry 0
\* at the top of a mapped one-page stack with an unmapped page below it, the
\* GDT exists only after the TSS and holds the code segment at 1 and the TSS
\* descriptor at 2-3, GDTR is loaded only with that GDT, CS only after GDTR,
\* TR only after CS, and the IDT only after TR; in the first call CS and TR
\* get the selectors of indices 1 and 2.
C27_InitOrder ==
    /\ pc \in {"tss", "gdt", "gdt loaded", "cs", "tr"} => IstOnGuardedStack
    /\ pc \in {"gdt", "gdt loaded", "cs", "tr"} => GdtBuilt
    /\ pc \in {"gdt loaded", "cs", "tr"} => cpu.gdtr = gdt.table
    /\ (pc \in {"cs", "tr"} /\ intr.calls = 1) => cpu.cs = SegmentSelectorNew(1)
    /\ (pc = "tr" /\ intr.calls = 1) => cpu.tr = SegmentSelectorNew(2)
    /\ tss # NoTss => IstOnGuardedStack
    /\ gdt.next_free # 0 => (GdtBuilt /\ tss # NoTss)
    /\ cpu.gdtr # <<>> => (gdt.next_free # 0 /\ cpu.gdtr = gdt.table)
    /\ cpu.cs # None => cpu.gdtr # <<>>
    /\ cpu.tr # None => cpu.cs # None
    /\ cpu.idtr => (cpu.tr # None /\ IstOnGuardedStack /\ GdtBuilt)

\* init has returned from its first call, made after another stack had been
\* handed out: the IDT is loaded, CS and TR hold the selectors 8 and 16
C27_Witness ==
    /\ pc = "ready"
    /\ intr.calls = 1
    /\ cpu.idtr
    /\ cpu.cs = 8
    /\ cpu.tr = 16
    /\ Cardinality(Handed) = 2
    /\ panicked = ""

(***************************************************************************)
(* What the closure of with reaches.                                       *)
(***************************************************************************)
\* the frames the entries of the table in `frame` other than the recursive
\* one lead to as tables
ChildrenBelowRecursive(m, frame) ==
    { pointed_frame(m.mem[frame][i]) :
        i \in { j \in Indices \ {RECURSIVE_INDEX} :
                  Contains(flags_of(m.mem[frame][j]), PRESENT)
                  /\ ~Contains(flags_of(m.mem[frame][j]), HUGE_PAGE) } }
    \cap DOMAIN m.mem

\* the P4 in `p4` and the tables reachable from its entries 0..510
TablesBelowRecursive(m, p4) ==
    {p4} \cup Grow(m, Grow(m, ChildrenBelowRecursive(m, p4)))

\* the step is an operation of f
ClosureStep ==
    /\ InsideWith
    /\ hist' # hist
    /\ hist'[Len(hist')].op \in {"map_to", "unmap"}

\* the position in hist of the last call of with
LastWith == CHOOSE i \in 1..Len(hist) :
               hist[i].op = "with" /\ \A j \in (i + 1)..Len(hist) : hist[j].op # "with"

\* the pages f has mapped in the last call of with and not unmapped again,
\* each with the frame it was mapped to
MappedByClosure ==
    { <<hist[i].page, hist[i].frame>> :
        i \in { j \in (LastWith + 1)..Len(hist) :
                  /\ hist[j].op = "map_to"
                  /\ hist[j].panic = ""
                  /\ \A k \in (j + 1)..Len(hist) :
                        ~(hist[k].op = "unmap" /\ hist[k].page = hist[j].page) } }

\* the active address space as it was when with was called
BeforeWith ==
    [mem |-> ctx.before, cr3 |-> FrameStartAddress(ctx.original),
     tlb |-> <<>>, flushes |-> <<>>]

\* with has returned: what f mapped translates as it did before with in the
\* active address space, and to the mapped frame once the table is switched to
ClosureMappedElsewhere ==
    WithReturned =>
       \A pf \in MappedByClosure :
          /\ Walk(M, pf[1]) = Walk(BeforeWith, pf[1])
          /\ Resolve(M, pf[1]) = Walk(BeforeWith, pf[1])
          /\ Walk(switch(M, ctx.table), pf[1]) = pf[2]
          /\ translate_page(switch(M, ctx.table), pf[1]) = pf[2]

\* C22: inside with, a map_to or unmap of f leaves the original active P4
\* and every table reachable from its entries 0..510 as they were; when with
\* has returned, a page f mapped translates in the active address space as
\* it did before with (a page that did not translate still does not), and
\* it translates to the mapped frame once switch has made the inactive table
\* active.
C22_ClosureWritesInactive ==
    /\ [][ClosureStep =>
             \A f \in TablesBelowRecursive(M, ctx.original) : mem'[f] = mem[f]]_vars
    /\ []ClosureMappedElsewhere

\* with has returned after f mapped a page that does not translate in the
\* active address space
C22_Witness ==
    /\ WithReturned
    /\ \E pf \in MappedByClosure : Walk(M, pf[1]) = None

(***************************************************************************)
(* The Mapper with a kernel that also uses the pages it maps: a load or    *)
(* store brings the page's translation into the TLB.  Once the page of the *)
(* P4 itself no longer resolves, the next access to a table faults and the *)
(* kernel goes no further.                                                 *)
(***************************************************************************)
MaxTlbOps == 4

\* the pages mapped, used and unmapped: two ordinary pages and the page the
\* P4 is reached at
TlbPages == { PageOf(0, 2, 0, 1), PageOf(0, 2, 0, 2), P4 }

\* whether the scenario may go on
TlbBudget == Len(hist) < MaxTlbOps /\ ~Faults(M, P4)

\* a load or store of the kernel to a page that resolves
Access(page) ==
    /\ panicked = ""
    /\ Resolve(M, page) # None
    /\ tlb' = Touch(M, page).tlb
    /\ hist' = Append(hist, Op("access", page, Resolve(M, page), 0))
    /\ UNCHANGED <<allocVars, mem, cr3, flushes, panicked, tmp, inactive, ctx, kernelVars>>

NextTlb ==
    \/ TlbBudget /\ \E page \in TlbPages : MapTo(page, BootInfoFrame + 3, WRITABLE)
    \/ TlbBudget /\ \E page \in TlbPages : Access(page)
    \/ TlbBudget /\ \E page \in TlbPages : Unmap(page)

SpecTlb == InitMapper /\ [][NextTlb]_vars

\* the step is an unmap that returned
Unmapping ==
    /\ hist' # hist
    /\ hist'[Len(hist')].op = "unmap"
    /\ hist'[Len(hist')].panic = ""

\* C23: an unmap(p) that returns issues one TLB flush, that of p's address,
\* and no flush of all; it has cleared the leaf entry by then, so that
\* afterwards the TLB holds no translation of p (not even where the write of
\* the entry itself went through p), while every translation of another page
\* that was cached before the call is still cached.
C23_UnmapFlushesPage ==
    [][Unmapping =>
          \E p \in {hist'[Len(hist')].page} :
             /\ flushes' = Append(flushes, p)
             /\ p \notin DOMAIN tlb'
             /\ Walk(MNext, p) = None
             /\ \A q \in DOMAIN tlb \ {p} : q \in DOMAIN tlb' /\ tlb'[q] = tlb[q]
    ]_vars

\* a page was unmapped whose translation the TLB held, and the TLB still
\* holds that of another page used before
C23_Witness ==
    /\ Len(hist) >= 3
    /\ LastOp.op = "unmap"
    /\ LastOp.panic = ""
    /\ \E i, j \in 1..(Len(hist) - 1) :
          /\ hist[i].op = "access"
          /\ hist[i].page = LastOp.page
          /\ hist[j].op = "access"
          /\ hist[j].page # LastOp.page
          /\ hist[j].page \in DOMAIN tlb
    /\ LastOp.page \notin DOMAIN tlb

(***************************************************************************)
(* The TLB flushes of with.                                                *)
(***************************************************************************)
\* every translation the TLB holds is the one the tables give
TlbCoherent == \A q \in DOMAIN tlb : tlb[q] = Walk(M, q)

\* the step is with up to the call of f
WithEntering ==
    /\ hist' # hist
    /\ hist'[Len(hist')].op = "with"
    /\ hist'[Len(hist')].panic = ""

\* the step is with from the return of f
WithReturning ==
    /\ hist' # hist
    /\ hist'[Len(hist')].op = "with returns"
    /\ hist'[Len(hist')].panic = ""

\* the number of flushes of the whole TLB among the first n flushes
RECURSIVE FlushAlls(_)
FlushAlls(n) ==
    IF n = 0 THEN 0
    ELSE FlushAlls(n - 1) + (IF flushes[n] = FlushAll THEN 1 ELSE 0)

\* the calls of with that have reached f, and those that have returned
WithsEntered == { i \in 1..Len(hist) : hist[i].op = "with" /\ hist[i].panic = "" }
WithsReturned == { i \in 1..Len(hist) : hist[i].op = "with returns" /\ hist[i].panic = "" }

\* C24: with flushes the whole TLB twice.  Up to the call of f it overwrites
\* P4[511] and then issues one full flush and nothing else, so f starts with
\* an empty TLB; from the return of f it restores P4[511], issues one full
\* flush and then the flush of the temporary page by its unmap.  No other
\* full flush is issued, and neither while f runs nor after with has
\* returned does the TLB hold a translation the tables do not give.
C24_WithFlushes ==
    /\ [][/\ WithEntering =>
                /\ flushes' = Append(flushes, FlushAll)
                /\ tlb' = <<>>
                /\ pointed_frame(mem'[ctx'.original][RECURSIVE_INDEX]) = ctx'.table
          /\ WithReturning =>
                /\ flushes' = flushes \o <<FlushAll, tmp.page>>
                /\ pointed_frame(mem'[ctx.original][RECURSIVE_INDEX]) = ctx.original
                /\ tmp.page \notin DOMAIN tlb'
       ]_vars
    /\ [](/\ FlushAlls(Len(flushes)) = Cardinality(WithsEntered) + Cardinality(WithsReturned)
          /\ (InsideWith \/ WithReturned) => TlbCoherent)

\* with has returned after f mapped and unmapped pages, and the TLB holds
\* translations again
C24_Witness ==
    /\ WithReturned
    /\ \E i \in 1..Len(hist) : hist[i].op = "map_to" /\ hist[i].panic = ""
    /\ FlushAlls(Len(flushes)) = 2
    /\ DOMAIN tlb # {}

(***************************************************************************)
(* translate_page on tables of every shape: under P4[0], the P3 entry 2 is *)
(* empty, a table, or a 1GiB page (aligned or not, present or not); the    *)
(* table's P2 entry 1 likewise with a 2MiB page; the P1's entry 1 is       *)
(* empty, present, or an address without PRESENT.                          *)
(***************************************************************************)
MaxTranslateOps == 2

\* the frames of the P2 and the P1 put under P3 entry 2
TranslateP2 == BootInfoFrame + 1
TranslateP1 == BootInfoFrame + 2

\* the words tried as P3 entry 2
P3Entries ==
    { 0,
      EntrySet(TranslateP2, BitOr(PRESENT, WRITABLE)),
      EntrySet(2 * ENTRY_COUNT * ENTRY_COUNT, HugeFlags),
      EntrySet(2 * ENTRY_COUNT * ENTRY_COUNT + 1, HugeFlags),
      EntrySet(2 * ENTRY_COUNT * ENTRY_COUNT, BitOr(WRITABLE, HUGE_PAGE)) }

\* the words tried as P2 entry 1
P2Entries ==
    { 0,
      EntrySet(TranslateP1, BitOr(PRESENT, WRITABLE)),
      EntrySet(3 * ENTRY_COUNT, HugeFlags),
      EntrySet(3 * ENTRY_COUNT + 2, HugeFlags),
      EntrySet(3 * ENTRY_COUNT, BitOr(WRITABLE, HUGE_PAGE)) }

\* the words tried as P1 entry 1
P1Entries ==
    { 0,
      EntrySet(BootInfoFrame + 3, BitOr(PRESENT, NO_EXECUTE)),
      EntrySet(BootInfoFrame + 3, WRITABLE) }

\* the pages translated: under the tried entries, beside them, under the
\* bootloader's 1GiB and 2MiB pages, and under an empty P4 entry
TranslatePages ==
    { PageOf(0, 2, 1, 1), PageOf(0, 2, 1, 2), PageOf(0, 2, 2, 1), PageOf(0, 2, 3, 3),
      PageOf(0, 1, 2, 3), PageOf(0, 0, 1, 2), PageOf(0, 0, 2, 0), PageOf(1, 2, 1, 1) }

\* the bootloader's tables with the tried entries put in
TranslateMemory(e3, e2, e1) ==
    [f \in Frames |->
        IF f = BootP3 THEN [BootMemory(0)[f] EXCEPT ![2] = e3]
        ELSE IF f = TranslateP2 THEN [i \in Indices |-> IF i = 1 THEN e2 ELSE 0]
        ELSE IF f = TranslateP1 THEN [i \in Indices |-> IF i = 1 THEN e1 ELSE 0]
        ELSE BootMemory(0)[f]]

InitTranslate ==
    /\ alloc = BootAllocator
    /\ returned = <<>>
    /\ last = NoCall
    /\ \E e3 \in P3Entries, e2 \in P2Entries, e1 \in P1Entries :
          mem = TranslateMemory(e3, e2, e1)
    /\ cr3 = FrameStartAddress(BootP4)
    /\ tlb = <<>>
    /\ flushes = <<>>
    /\ panicked = ""
    /\ hist = <<>>
    /\ KernelIdle
    /\ tmp = NoTemporaryPage
    /\ inactive = {}
    /\ ctx = NoContext

\* Mapper::translate_page
TranslatePage(page) ==
    /\ panicked = ""
    /\ Len(hist) < MaxTranslateOps
    /\ \E frame \in {translate_page(M, page)} :
          /\ hist' = Append(hist, [Op("translate_page", page, frame, 0) EXCEPT
                                     !.panic = IF frame = AssertFailed
                                               THEN "assertion failed" ELSE ""])
          /\ panicked' = IF frame = AssertFailed THEN "assertion failed" ELSE ""
    /\ tlb' = TouchPath(M, page).tlb
    /\ UNCHANGED <<allocVars, mem, cr3, flushes, tmp, inactive, ctx, kernelVars>>

NextTranslate == \E page \in TranslatePages : TranslatePage(page)

SpecTranslate == InitTranslate /\ [][NextTranslate]_vars

\* the entry of `page` at the P4, P3, P2 and P1 level, read from the frames;
\* None where the level above does not lead to a table
EntryAt(level, page) ==
    LET e4 == mem[FrameContainingAddress(cr3)][p4_index(page)]
        leads(e) == Contains(flags_of(e), PRESENT) /\ ~Contains(flags_of(e), HUGE_PAGE)
        e3 == IF leads(e4) THEN mem[pointed_frame(e4)][p3_index(page)] ELSE None
        e2 == IF e3 # None /\ leads(e3) THEN mem[pointed_frame(e3)][p2_index(page)] ELSE None
        e1 == IF e2 # None /\ leads(e2) THEN mem[pointed_frame(e2)][p1_index(page)] ELSE None
    IN  <<e1, e2, e3, e4>>[level]

\* whether an entry is there, PRESENT and a huge page
IsHuge(e) ==
    e # None /\ Contains(flags_of(e), PRESENT) /\ Contains(flags_of(e), HUGE_PAGE)

\* what C25 says translate_page(page) is
Translation(page) ==
    LET e3 == EntryAt(3, page)
        e2 == EntryAt(2, page)
        e1 == EntryAt(1, page)
    IN  IF IsHuge(e3)
        THEN IF pointed_frame(e3) % (ENTRY_COUNT * ENTRY_COUNT) = 0
             THEN pointed_frame(e3) + p2_index(page) * ENTRY_COUNT + p1_index(page)
             ELSE AssertFailed
        ELSE IF IsHuge(e2)
        THEN IF pointed_frame(e2) % ENTRY_COUNT = 0
             THEN pointed_frame(e2) + p1_index(page)
             ELSE AssertFailed
        ELSE IF e1 = None THEN None
        ELSE pointed_frame(e1)

MainKernelStart(info) ==
    CHOOSE a \in { info.sections[i].addr : i \in 1..Len(info.sections) } :
        \A i \in 1..Len(info.sections) : a <= info.sections[i].addr

\* rust_main's kernel_end: the greatest end of a section, allocated or not
MainKernelEnd(info) ==
    CHOOSE a \in { info.sections[i].addr + info.sections[i].size :
                     i \in 1..Len(info.sections) } :
        \A i \in 1..Len(info.sections) :
           a >= info.sections[i].addr + info.sections[i].size

\* a mutant of enable_nxe_bit: the bit is written as 0
EnableNxeBitCleared(c) == [c EXCEPT !.nxe = FALSE]

\* enable_nxe_bit: EFER is written back with the NXE bit set
enable_nxe_bit(c) == [c EXCEPT !.nxe = TRUE]

\* enable_write_protect_bit: CR0 is written back with WRITE_PROTECT set
enable_write_protect_bit(c) == [c EXCEPT !.wp = TRUE]

InitMain ==
    /\ boot \in BootInformations
    /\ alloc = AreaFrameAllocatorNew(MainKernelStart(boot), MainKernelEnd(boot), boot.start_address, boot.end_address, <<[base_addr |-> 0, length |-> NumFrames * PAGE_SIZE]>>)
    /\ returned = <<>>
    /\ last = NoCall
    /\ mem = BootMemory(GarbageWord)
    /\ cr3 = FrameStartAddress(BootP4)
    /\ tlb = <<>>
    /\ flushes = <<>>
    /\ panicked = ""
    /\ hist = <<>>
    /\ tmp = NoTemporaryPage
    /\ inactive = {}
    /\ ctx = NoContext
    /\ pc = "main"
    /\ range = [start |-> 0, end |-> None]
    /\ stacks = <<>>
    /\ gdt = NoGdt
    /\ tss = NoTss
    /\ cpu = CpuAtBoot
    /\ intr = NoInterruptsInit
    /\ vga = NoWriter

\* a statement of rust_main that changes the processor's registers only
MainStatement(from, to, op) ==
    /\ panicked = ""
    /\ pc = from
    /\ pc' = to
    /\ hist' = Append(hist, Op(op, None, None, 0))
    /\ UNCHANGED <<allocVars, mem, cr3, tlb, flushes, panicked, tmp, inactive, ctx,
                   boot, range, stacks, gdt, tss, intr, vga>>

\* rust_main: enable_nxe_bit()
EnableNxeBit ==
    /\ MainStatement("main", "nxe", "enable_nxe_bit")
    /\ cpu' = enable_nxe_bit(cpu)

\* rust_main: enable_write_protect_bit(); remap_kernel is called next
EnableWriteProtectBit ==
    /\ MainStatement("nxe", "boot", "enable_write_protect_bit")
    /\ cpu' = enable_write_protect_bit(cpu)

\* rust_main: frame_allocator.allocate_frame() after remap_kernel
MainAllocateFrame ==
    /\ panicked = ""
    /\ pc = "remapped"
    /\ \E a \in {Allocate(AreaAllocator(alloc))} :
          /\ CommitAllocator(a.al)
          /\ hist' = Append(hist, Op("allocate_frame", None, a.frame, 0))
    /\ pc' = "done"
    /\ UNCHANGED <<mem, cr3, tlb, flushes, panicked, tmp, inactive, ctx,
                   boot, range, stacks, gdt, tss, cpu, intr, vga>>

NextMain ==
    \/ EnableNxeBit
    \/ EnableWriteProtectBit
    \/ RemapPrepare
    \/ RemapWith
    \/ RemapSwitch
    \/ RemapGuard
    \/ MainAllocateFrame

SpecMain == InitMain /\ [][NextMain]_vars

\* an entry with NO_EXECUTE is in a table of the active address space
NoExecuteInActive ==
    \E f \in DOMAIN ActiveTables(M) :
       \E i \in Indices : Contains(flags_of(mem[f][i]), NO_EXECUTE)

\* C26: in rust_main EFER.NXE is set before remap_kernel is called: it is set
\* whenever remap_kernel is running or has run, whenever CR3 is written, and
\* whenever a table of the active address space holds an entry with
\* NO_EXECUTE.
C26_NxeBeforeRemap ==
    /\ [][cr3' # cr3 => cpu.nxe]_vars
    /\ [](/\ pc \notin {"main"} => cpu.nxe
          /\ NoExecuteInActive => cpu.nxe)

\* remap_kernel has switched to a table with a NO_EXECUTE entry, NXE set
C26_Witness ==
    /\ pc \in {"switched", "remapped", "done"}
    /\ panicked = ""
    /\ cr3 # FrameStartAddress(BootP4)
    /\ NoExecuteInActive
    /\ cpu.nxe

(***************************************************************************)
(* next_table_create on its own: called on the P4, P3s and the P2 of the   *)
(* bootloader's tables, whose entries are tables, huge pages, empty, or    *)
(* hold bits without PRESENT, with the frame allocator or with a           *)
(* TinyAllocator that has no frame left.                                   *)
(***************************************************************************)
MaxTableOps == 2

\* the bootloader's tables, with an address without PRESENT as P3 entry 3 and
\* HUGE_PAGE without PRESENT as P2 entry 3
TableMemory ==
    [BootMemory(GarbageWord) EXCEPT
        ![BootP3][3] = EntrySet(BootInfoFrame + 3, WRITABLE),
        ![BootP2][3] = BitOr(WRITABLE, HUGE_PAGE)]

\* the pages the P4, its first P3s and the first P2 are reached at
TablePages ==
    {P4} \cup { PageOf(RECURSIVE_INDEX, RECURSIVE_INDEX, RECURSIVE_INDEX, i) : i \in 0..2 }
         \cup { PageOf(RECURSIVE_INDEX, RECURSIVE_INDEX, 0, 0) }

\* a TinyAllocator whose three frames are handed out
EmptyTinyAllocator == TinyAllocator(<<None, None, None>>)

InitTable ==
    /\ alloc = BootAllocator
    /\ returned = <<>>
    /\ last = NoCall
    /\ mem = TableMemory
    /\ cr3 = FrameStartAddress(BootP4)
    /\ tlb = <<>>
    /\ flushes = <<>>
    /\ panicked = ""
    /\ hist = <<>>
    /\ KernelIdle
    /\ tmp = NoTemporaryPage
    /\ inactive = {}
    /\ ctx = NoContext

\* Table::next_table_create on a table that exists; `tiny` tells the allocator
NextTableCreate(table, index, tiny) ==
    /\ panicked = ""
    /\ Len(hist) < MaxTableOps
    /\ Walk(M, table) # None
    /\ \E r \in {next_table_create(M, IF tiny THEN EmptyTinyAllocator
                                      ELSE AreaAllocator(alloc), table, index)} :
          /\ Commit(r, [Op("next_table_create", table, r.val, index) EXCEPT
                          !.op = IF tiny THEN "next_table_create (tiny)" ELSE @])
          /\ IF tiny THEN UNCHANGED allocVars ELSE CommitAllocator(r.al)
    /\ UNCHANGED <<tmp, inactive, ctx, kernelVars>>

NextTable ==
    \E table \in TablePages, index \in Indices, tiny \in BOOLEAN :
       NextTableCreate(table, index, tiny)

SpecTable == InitTable /\ [][NextTable]_vars

\* the step is a next_table_create
TableStep == hist' # hist

\* the entry next_table_create is called on, before the call
EntryBefore == mem[Walk(M, hist'[Len(hist')].page)][hist'[Len(hist')].flags]

\* the same entry after the call
EntryAfter == mem'[Walk(M, hist'[Len(hist')].page)][hist'[Len(hist')].flags]

\* the address of the child of entry `index` of `table`
ChildAddress(table, index) == (table * ENTRY_COUNT + index) % NumPages

\* the allocator was not called
NothingAllocated == alloc' = alloc /\ returned' = returned

\* C28: next_table_create(i, alloc) on an entry that is PRESENT and not
\* HUGE_PAGE returns the child there is, without a call of the allocator or
\* a write; on an entry with HUGE_PAGE it panics without allocating;
\* otherwise it takes exactly one frame from the allocator, or panics if
\* there is none, sets the entry to that frame | PRESENT | WRITABLE, writes
\* no other entry of an existing table, and returns the child, whose entries
\* are all unused.
C28_NextTableCreate ==
    [][TableStep =>
          \E e \in {hist'[Len(hist')]} :
             IF Contains(flags_of(EntryBefore), PRESENT)
                /\ ~Contains(flags_of(EntryBefore), HUGE_PAGE)
             THEN /\ e.panic = ""
                  /\ e.frame = ChildAddress(e.page, e.flags)
                  /\ Walk(MNext, e.frame) = pointed_frame(EntryBefore)
                  /\ NothingAllocated
                  /\ mem' = mem
             ELSE IF Contains(flags_of(EntryBefore), HUGE_PAGE)
             THEN /\ e.panic = "mapping code does not support huge pages"
                  /\ NothingAllocated
                  /\ mem' = mem
             ELSE IF e.op = "next_table_create (tiny)" \/ alloc.current_area = None
             THEN /\ e.panic = "no frames available"
                  /\ Len(returned') = Len(returned)
                  /\ mem' = mem
             ELSE /\ e.panic = ""
                  /\ Len(returned') = Len(returned) + 1
                  /\ \E frame \in {returned'[Len(returned')]} :
                        /\ EntryAfter = EntrySet(frame, BitOr(PRESENT, WRITABLE))
                        /\ e.frame = ChildAddress(e.page, e.flags)
                        /\ Walk(MNext, e.frame) = frame
                        /\ Resolve(MNext, e.frame) = frame
                        /\ \A i \in Indices : is_unused(mem'[frame][i])
                        /\ \A f \in DOMAIN mem \ {frame} : \A i \in Indices :
                              (f # Walk(M, e.page) \/ i # e.flags) => mem'[f][i] = mem[f][i]
    ]_vars

\* a table was created on an entry that held bits without PRESENT, in a frame
\* that held other words before
C28_Witness ==
    /\ Len(hist) >= 1
    /\ LastOp.op = "next_table_create"
    /\ LastOp.panic = ""
    /\ LastOp.page = PageOf(RECURSIVE_INDEX, RECURSIVE_INDEX, RECURSIVE_INDEX, 0)
    /\ LastOp.flags = 3
    /\ Len(returned) >= 1
    /\ TableMemory[returned[Len(returned)]][0] # 0
    /\ mem[returned[Len(returned)]][0] = 0

(***************************************************************************)
(* The frames of the TemporaryPage in remap_kernel.                        *)
(***************************************************************************)
\* the frames of the P3, P2 and P1 on the path of `page` in the active
\* address space, read from the frames
PathFrames(page) ==
    LET leads(e) == Contains(flags_of(e), PRESENT) /\ ~Contains(flags_of(e), HUGE_PAGE)
        e4 == mem[FrameContainingAddress(cr3)][p4_index(page)]
        f3 == IF leads(e4) THEN pointed_frame(e4) ELSE None
        e3 == IF f3 # None THEN mem[f3][p3_index(page)] ELSE 0
        f2 == IF leads(e3) THEN pointed_frame(e3) ELSE None
        e2 == IF f2 # None THEN mem[f2][p2_index(page)] ELSE 0
        f1 == IF leads(e2) THEN pointed_frame(e2) ELSE None
    IN  {f3, f2, f1} \ {None}

\* the frames TinyAllocator::new pulled: the first three the frame allocator
\* returned
PulledFrames == { returned[i] : i \in 1..3 }

\* the frames the TinyAllocator has handed out
HandedOutFrames == PulledFrames \ { tmp.allocator[i] : i \in 1..Len(tmp.allocator) }

\* C29: in remap_kernel the TemporaryPage's map and unmap take frames from
\* its TinyAllocator only and never find it empty: InactivePageTable::new
\* asks the frame allocator for nothing beyond the three pulled frames and
\* the P4's frame; the frames the TinyAllocator has handed out, at most
\* three, are the P3, P2 and P1 of the temporary page; and with, mapping the
\* same page again, takes no further frame from it.
C29_TemporaryPageFrames ==
    /\ [][(pc = "prepared" /\ pc' = "mapped" /\ panicked' = "") =>
             tmp'.allocator = tmp.allocator]_vars
    /\ [](/\ panicked # "no frames available"
          /\ (pc = "prepared" /\ panicked = "") => Len(returned) = 4
          /\ (pc \in {"prepared", "mapped"} /\ panicked = "") =>
                /\ HandedOutFrames = PathFrames(tmp.page)
                /\ Cardinality(HandedOutFrames) <= 3
                /\ Unmapped(tmp.page))

\* with has returned in remap_kernel; the TinyAllocator's three frames were
\* all taken by the first map of the temporary page
C29_Witness ==
    /\ pc = "mapped"
    /\ panicked = ""
    /\ Cardinality(HandedOutFrames) = 3
    /\ Len(returned) > 4

(***************************************************************************)
(* The pool of the TinyAllocator.                                          *)
(***************************************************************************)
\* the frames the TinyAllocator holds after the step
HeldFramesNext == { tmp'.allocator[i] : i \in 1..Len(tmp'.allocator) } \ {None}

\* the step is an allocate_frame of the TinyAllocator
TinyAllocating ==
    /\ hist' # hist
    /\ hist'[Len(hist')].op = "allocate_frame"

\* the step is a deallocate_frame of the TinyAllocator
TinyDeallocating ==
    /\ hist' # hist
    /\ hist'[Len(hist')].op = "deallocate_frame"

\* C30: a TinyAllocator made from an allocator with three free frames has
\* three places and holds at most three frames, all different; allocate_frame
\* returns a frame it holds and no longer holds it afterwards (None, and no
\* change, if it holds none); deallocate_frame adds the frame to those held,
\* so that it can be allocated again, and panics, changing nothing, when all
\* three places are occupied.
C30_TinyPool ==
    /\ [][/\ TinyAllocating =>
                \E frame \in {hist'[Len(hist')].frame} :
                   IF HeldFrames = {}
                   THEN frame = None /\ tmp' = tmp
                   ELSE /\ frame \in HeldFrames
                        /\ HeldFramesNext = HeldFrames \ {frame}
          /\ TinyDeallocating =>
                \E frame \in {hist'[Len(hist')].frame} :
                   IF Cardinality(HeldFrames) = 3
                   THEN /\ panicked' = "tiny allocator can hold only 3 frames."
                        /\ tmp' = tmp
                   ELSE /\ panicked' = ""
                        /\ HeldFramesNext = HeldFrames \cup {frame}
                        /\ TinyAllocateFrame(tmp'.allocator).frame \in HeldFramesNext
       ]_vars
    /\ [](tmp # NoTemporaryPage =>
             /\ Len(tmp.allocator) = 3
             /\ Cardinality(HeldFrames) <= 3
             /\ \A i, j \in 1..3 :
                   (i # j /\ tmp.allocator[i] # None) => tmp.allocator[i] # tmp.allocator[j])

\* a frame was allocated, given back and allocated again
C30_Witness ==
    \E i, j, k \in 1..Len(hist) :
       /\ i < j
       /\ j < k
       /\ hist[i].op = "allocate_frame"
       /\ hist[i].frame # None
       /\ hist[j].op = "deallocate_frame"
       /\ hist[j].frame = hist[i].frame
       /\ hist[j].panic = ""
       /\ hist[k].op = "allocate_frame"
       /\ hist[k].frame = hist[i].frame

\* deallocate_frame found the three places occupied and panicked
C30_WitnessFull ==
    /\ panicked = "tiny allocator can hold only 3 frames."
    /\ Cardinality(HeldFrames) = 3

(***************************************************************************)
(* memory/paging/entry.rs: the encoding of an Entry.  The entry is the     *)
(* leaf entry of one page: map_to writes it, and so do Entry::set and      *)
(* Entry::set_unused called on it directly, with frames whose address lies *)
(* inside and outside the address bits and with flags with and without     *)
(* PRESENT.                                                                *)
(***************************************************************************)
MaxEntryOps == 3

EntryPage == PageOf(0, 2, 0, 1)

\* the last frame whose start address lies within the address bits
LastAddressableFrame == FrameContainingAddress(ADDRESS_MASK)

EntryFrames == {0, LastAddressableFrame, LastAddressableFrame + 1}

EntryFlagSets == {0, BitOr(WRITABLE, NO_EXECUTE), BitOr(PRESENT, GLOBAL)}

\* whether the entry's scenario may go on
EntryBudget == Len(hist) < MaxEntryOps /\ panicked = ""

\* Entry::set called on the leaf entry of `page`, whose P1 is `p1`
entry_set(m, al, p1, page, frame, flags) ==
    IF ~EntrySetAsserts(frame)
    THEN Result(Touch(m, p1), al, "assertion failed: Entry::set", None)
    ELSE Result(WriteEntry(m, p1, p1_index(page), EntrySet(frame, flags)), al, "", None)

\* Entry::set_unused called on the leaf entry of `page`, whose P1 is `p1`
entry_set_unused(m, al, p1, page) ==
    Result(WriteEntry(m, p1, p1_index(page), 0), al, "", None)

\* a call of Entry::set on the leaf entry of `page`
SetEntry(page, frame, flags) ==
    /\ LeafEntry(M, page) # None
    /\ \E r \in {entry_set(M, AreaAllocator(alloc), PathTables(M, page)[4], page, frame, flags)} :
          Commit(r, Op("set", page, frame, flags)) /\ CommitAllocator(r.al)
    /\ UNCHANGED <<tmp, inactive, ctx, kernelVars>>

\* a call of Entry::set_unused on the leaf entry of `page`
SetEntryUnused(page) ==
    /\ LeafEntry(M, page) # None
    /\ \E r \in {entry_set_unused(M, AreaAllocator(alloc), PathTables(M, page)[4], page)} :
          Commit(r, Op("set_unused", page, None, 0)) /\ CommitAllocator(r.al)
    /\ UNCHANGED <<tmp, inactive, ctx, kernelVars>>

NextEntry ==
    \/ EntryBudget /\ \E frame \in EntryFrames, flags \in EntryFlagSets :
          MapTo(EntryPage, frame, flags)
    \/ EntryBudget /\ \E frame \in EntryFrames, flags \in EntryFlagSets :
          SetEntry(EntryPage, frame, flags)
    \/ EntryBudget /\ SetEntryUnused(EntryPage)

SpecEntry == InitMapper /\ [][NextEntry]_vars

\* whether the start address of `frame` has a bit outside the address bits of
\* an entry: it is a multiple of PAGE_SIZE, so only the bits above them count
OutsideAddressBits(frame) == FrameStartAddress(frame) > ADDRESS_MASK

\* the entry the operations are called on, as it is now
TheEntry == LeafEntry(M, EntryPage)

\* C31: Entry::set(frame, flags) panics if the frame's start address has a
\* bit outside the address bits and otherwise leaves an entry whose flags()
\* is flags and whose pointed_frame() is the frame if flags has PRESENT and
\* None if not, whatever the entry held before; after set_unused the entry is
\* zero and is_unused(); an entry map_to has written is not unused.
C31_EntryRoundTrip ==
    hist # <<>> =>
       /\ LastOp.op = "set" =>
             IF OutsideAddressBits(LastOp.frame)
             THEN LastOp.panic # ""
             ELSE /\ LastOp.panic = ""
                  /\ flags_of(TheEntry) = LastOp.flags
                  /\ pointed_frame(TheEntry) =
                        (IF Contains(LastOp.flags, PRESENT) THEN LastOp.frame ELSE None)
       /\ LastOp.op = "set_unused" =>
             /\ LastOp.panic = ""
             /\ TheEntry = 0
             /\ is_unused(TheEntry)
       /\ MappedOk(LastOp) =>
             /\ ~is_unused(TheEntry)
             /\ pointed_frame(TheEntry) = LastOp.frame

\* Entry::set has overwritten an entry that pointed to another frame with
\* other flags, with the last frame the address bits can hold
C31_Witness ==
    /\ Len(hist) >= 2
    /\ LastOp.op = "set"
    /\ LastOp.panic = ""
    /\ LastOp.frame = LastAddressableFrame
    /\ Contains(LastOp.flags, PRESENT)
    /\ hist[Len(hist) - 1].op \in {"set", "map_to"}
    /\ hist[Len(hist) - 1].frame # LastOp.frame
    /\ hist[Len(hist) - 1].flags # LastOp.flags

\* Entry::set has panicked on a frame beyond the address bits
C31_WitnessPanic ==
    /\ hist # <<>>
    /\ LastOp.op = "set"
    /\ panicked = "assertion failed: Entry::set"

\* map_to has written an entry for frame 0 with no flags given
C31_WitnessMapTo ==
    /\ hist # <<>>
    /\ MappedOk(LastOp)
    /\ LastOp.frame = 0
    /\ LastOp.flags = 0

(***************************************************************************)
(* What unmap leaves alone.  Pages are mapped and unmapped; among the      *)
(* pages unmapped are the P4 and a P1, read as pages through the recursive *)
(* entry.                                                                  *)
(***************************************************************************)
MaxUnmapOps == 4

\* two pages that share their P1, that P1 and the P4
UnmapPages ==
    { PageOf(0, 2, 0, 1), PageOf(0, 2, 0, 2), PageOf(RECURSIVE_INDEX, 0, 2, 0), P4 }

\* whether the scenario may go on
UnmapBudget == Len(hist) < MaxUnmapOps /\ ~Faults(M, P4)

NextUnmap ==
    \/ UnmapBudget /\ \E page \in UnmapPages : Map(page, WRITABLE)
    \/ UnmapBudget /\ \E page \in UnmapPages : Unmap(page)

SpecUnmap == InitMapper /\ [][NextUnmap]_vars

\* the places (frame and index) of the entries the processor reads to
\* translate `page`: of its P4, P3, P2 and P1 entry, as far as the walk gets
WalkPlaces(page) ==
    LET leads(e) == Contains(flags_of(e), PRESENT) /\ ~Contains(flags_of(e), HUGE_PAGE)
        f4 == FrameContainingAddress(cr3)
        f3 == IF leads(mem[f4][p4_index(page)])
              THEN pointed_frame(mem[f4][p4_index(page)]) ELSE None
        f2 == IF f3 \in DOMAIN mem /\ leads(mem[f3][p3_index(page)])
              THEN pointed_frame(mem[f3][p3_index(page)]) ELSE None
        f1 == IF f2 \in DOMAIN mem /\ leads(mem[f2][p2_index(page)])
              THEN pointed_frame(mem[f2][p2_index(page)]) ELSE None
    IN  << <<f4, p4_index(page)>>, <<f3, p3_index(page)>>,
           <<f2, p2_index(page)>>, <<f1, p1_index(page)>> >>

\* the place of the P1 entry of `page`
LeafPlace(page) == WalkPlaces(page)[4]

\* whether the translation of `q` reads the entry at `place`
Through(place, q) == \E places \in {WalkPlaces(q)} : \E level \in 1..4 : places[level] = place

\* all the pages there are
AllPages == 0..(NumPages - 1)

\* whether the P4, P3 and P2 entry of `page` at `places` are present in `memory`
PathPresent(memory, places) ==
    \A level \in 1..3 :
       Contains(flags_of(memory[places[level][1]][places[level][2]]), PRESENT)

\* the allocator was not called in the step
AllocatorNotCalled == UNCHANGED <<alloc, returned, last>>

\* C32 as stated: an unmap(p) that returns leaves the translation of every
\* other page as it was, the P3, P2 and P1 on p's path present, and the frame
\* allocator uncalled.
C32_UnmapChangesOnlyLeaf ==
    [][Unmapping =>
          \E p \in {hist'[Len(hist')].page} :
             /\ \A q \in AllPages \ {p} : Walk(MNext, q) = Walk(M, q)
             /\ PathPresent(mem', WalkPlaces(p))
             /\ AllocatorNotCalled
    ]_vars

\* C32, amended: an unmap(p) that returns changes one word of memory, the P1
\* entry of p, to zero; the translation of every other page that is not
\* translated through that entry is as it was; the P3, P2 and P1 on p's path
\* are still present unless the entry unmapped is one of theirs (p is the P4
\* read as a page); the frame allocator is not called.
C32_UnmapChangesLeafWord ==
    [][Unmapping =>
          \E p \in {hist'[Len(hist')].page} :
             \E place \in {LeafPlace(p)} :
                /\ mem' = [mem EXCEPT ![place[1]][place[2]] = 0]
                /\ \A q \in AllPages \ {p} :
                      ~Through(place, q) => Walk(MNext, q) = Walk(M, q)
                /\ \E places \in {WalkPlaces(p)} :
                      (\A level \in 1..3 : places[level] # place)
                         => PathPresent(mem', places)
                /\ AllocatorNotCalled
    ]_vars

\* a page has been unmapped that was the only one mapped in its P1, and the
\* P1, now empty, is still in its P2
C32_Witness ==
    /\ hist # <<>>
    /\ LastOp.op = "unmap"
    /\ LastOp.panic = ""
    /\ LastOp.page = PageOf(0, 2, 0, 1)
    /\ \E f1 \in {LeafPlace(LastOp.page)[1]} :
          /\ f1 # None
          /\ \A i \in Indices : mem[f1][i] = 0
    /\ returned # <<>>

(***************************************************************************)
(* vga_buffer.rs: the Writer and the text buffer it writes to.  The buffer *)
(* has its real size; a cell is a ScreenChar, and at boot the screen holds *)
(* what the firmware and the bootloader have left on it.                   *)
(***************************************************************************)
Black == 0
LightGreen == 10

\* ColorCode::new
ColorCodeNew(foreground, background) == background * 16 + foreground

BUFFER_HEIGHT == 25
BUFFER_WIDTH == 80

Rows == 0..(BUFFER_HEIGHT - 1)
Cols == 0..(BUFFER_WIDTH - 1)

\* b'\n' and b' '
LineFeed == 10
Space == 32

ScreenChar(byte, color) == [ascii_character |-> byte, color_code |-> color]

\* the static WRITER, the buffer it points to holding `chars`
Writer(chars) ==
    [column_position |-> 0, color_code |-> ColorCodeNew(LightGreen, Black), chars |-> chars]

\* Writer::clear_row
clear_row(w, row) ==
    [w EXCEPT !.chars[row] = [col \in Cols |-> ScreenChar(Space, w.color_code)]]

RECURSIVE NewLineFrom(_, _)
\* the outer loop of new_line from `row` on: the inner loop copies the cells
\* of the columns 0..BUFFER_HEIGHT of `row` to the row above
NewLineFrom(chars, row) ==
    IF row >= BUFFER_HEIGHT THEN chars
    ELSE Let([chars EXCEPT ![row - 1] =
                 [col \in Cols |-> IF col < BUFFER_HEIGHT
                                   THEN chars[row][col]
                                   ELSE chars[row - 1][col]]],
             LAMBDA copied : NewLineFrom(copied, row + 1))

\* Writer::new_line
new_line(w) ==
    Let(NewLineFrom(w.chars, 1), LAMBDA shifted :
      [clear_row([w EXCEPT !.chars = shifted], BUFFER_HEIGHT - 1)
          EXCEPT !.column_position = 0])

\* write_byte for a byte that is not a line feed, the line wrapped if need be
PutByte(w, byte) ==
    [w EXCEPT !.chars[BUFFER_HEIGHT - 1][w.column_position] = ScreenChar(byte, w.color_code),
              !.column_position = w.column_position + 1]

\* Writer::write_byte
write_byte(w, byte) ==
    IF byte = LineFeed THEN new_line(w)
    ELSE IF w.column_position >= BUFFER_WIDTH
    THEN Let(new_line(w), LAMBDA wrapped : PutByte(wrapped, byte))
    ELSE PutByte(w, byte)

RECURSIVE write_str(_, _)
\* Writer::write_str: write_byte for each byte in order (the first half of
\* the text, then the second)
write_str(w, bytes) ==
    IF bytes = <<>> THEN w
    ELSE IF Len(bytes) = 1 THEN write_byte(w, bytes[1])
    ELSE Let(write_str(w, SubSeq(bytes, 1, Len(bytes) \div 2)), LAMBDA written :
           write_str(written, SubSeq(bytes, Len(bytes) \div 2 + 1, Len(bytes))))

RECURSIVE NewLines(_, _)
\* n calls of new_line
NewLines(w, n) == IF n = 0 THEN w ELSE Let(new_line(w), LAMBDA shifted : NewLines(shifted, n - 1))

\* clear_screen
clear_screen(w) == NewLines(w, BUFFER_HEIGHT)

MaxVgaOps == 3

\* the screens at boot: every cell differs from those next to it
VgaScreens ==
    { [row \in Rows |-> [col \in Cols |-> ScreenChar(33 + ((row + col + k) % 64), 7)]] :
        k \in {0, 1} }

\* the texts written: a letter, a line and a line longer than the screen is wide
VgaTexts ==
    { <<65>>, <<72, 105, LineFeed>>, [i \in 1..(BUFFER_WIDTH + 1) |-> 66] }

InitVga ==
    /\ InitMachine
    /\ tmp = NoTemporaryPage
    /\ inactive = {}
    /\ ctx = NoContext
    /\ boot = [sections |-> <<>>, start_address |-> 0, end_address |-> 0]
    /\ pc = "boot"
    /\ range = [start |-> 0, end |-> None]
    /\ stacks = <<>>
    /\ gdt = NoGdt
    /\ tss = NoTss
    /\ cpu = CpuAtBoot
    /\ intr = NoInterruptsInit
    /\ \E chars \in VgaScreens : vga = Writer(chars)

VgaVars ==
    <<alloc, returned, last, mem, cr3, tlb, flushes, tmp, inactive, ctx, panicked,
      boot, pc, range, stacks, gdt, tss, cpu, intr>>

\* whether the screen's scenario may go on
VgaBudget == Len(hist) < MaxVgaOps

\* a call of new_line
VgaNewLine ==
    /\ vga' = new_line(vga)
    /\ hist' = Append(hist, Op("new_line", None, None, 0))
    /\ UNCHANGED VgaVars

\* a call of write_str, as print! makes it
VgaWriteStr(bytes) ==
    /\ vga' = write_str(vga, bytes)
    /\ hist' = Append(hist, Op("write_str", None, None, 0))
    /\ UNCHANGED VgaVars

\* a call of clear_screen
VgaClearScreen ==
    /\ vga' = clear_screen(vga)
    /\ hist' = Append(hist, Op("clear_screen", None, None, 0))
    /\ UNCHANGED VgaVars

NextVga ==
    \/ VgaBudget /\ VgaNewLine
    \/ VgaBudget /\ \E bytes \in VgaTexts : VgaWriteStr(bytes)
    \/ VgaBudget /\ VgaClearScreen

SpecVga == InitVga /\ [][NextVga]_vars

\* the step is a call of new_line
NewLineStep ==
    /\ hist' # hist
    /\ hist'[Len(hist')].op = "new_line"

\* whether a cell is blank: a space in the Writer's colour
IsBlank(cell) == cell = ScreenChar(Space, vga.color_code)

\* C33: after new_line every cell (r-1, c), r in 1..24 and c in 0..79, holds
\* what cell (r, c) held before, every cell of row 24 is blank and
\* column_position is 0; after clear_screen every cell of the buffer is blank.
C33_NewLineShifts ==
    /\ [][NewLineStep =>
             /\ \A r \in 1..(BUFFER_HEIGHT - 1), c \in Cols :
                   vga'.chars[r - 1][c] = vga.chars[r][c]
             /\ \A c \in Cols : vga'.chars[BUFFER_HEIGHT - 1][c] = ScreenChar(Space, vga.color_code)
             /\ vga'.column_position = 0
         ]_vars
    /\ []((hist # <<>> /\ LastOp.op = "clear_screen") =>
             \A r \in Rows, c \in Cols : IsBlank(vga.chars[r][c]))

(***************************************************************************)
(* allocate_frame pass by pass.  A call runs the function's body once and  *)
(* either returns or calls itself again with the allocator as the pass has *)
(* left it; pc tells whether a call is under way, and hist holds the       *)
(* passes of the latest call.                                              *)
(***************************************************************************)
\* a mutant of the body of allocate_frame: a frame of the kernel is skipped
\* to the kernel's first frame
AllocateFrameBodyToKernelStart(a) ==
    IF a.current_area # None
    THEN LET frame == a.next_free_frame
             current_area_last_frame == AreaLastFrame(a.areas[a.current_area])
         IN  IF frame > current_area_last_frame
             THEN [alloc |-> choose_next_area(a), frame |-> None, again |-> TRUE]
             ELSE IF frame >= a.kernel_start /\ frame <= a.kernel_end
             THEN [alloc |-> [a EXCEPT !.next_free_frame = a.kernel_start],
                   frame |-> None, again |-> TRUE]
             ELSE IF frame >= a.multiboot_start /\ frame <= a.multiboot_end
             THEN [alloc |-> [a EXCEPT !.next_free_frame = a.multiboot_end + 1],
                   frame |-> None, again |-> TRUE]
             ELSE [alloc |-> [a EXCEPT !.next_free_frame = @ + 1],
                   frame |-> frame, again |-> FALSE]
    ELSE [alloc |-> a, frame |-> None, again |-> FALSE]

\* the body of AreaFrameAllocator::allocate_frame, run once: the allocator
\* after it, the frame returned, and whether it ends in the call of itself
AllocateFrameBody(a) ==
    IF a.current_area # None
    THEN LET frame == a.next_free_frame
             current_area_last_frame == AreaLastFrame(a.areas[a.current_area])
         IN  IF frame > current_area_last_frame
             THEN \* all frames of current area are used, switch to next area
                  [alloc |-> choose_next_area(a), frame |-> None, again |-> TRUE]
             ELSE IF frame >= a.kernel_start /\ frame <= a.kernel_end
             THEN \* `frame` is used by the kernel
                  [alloc |-> [a EXCEPT !.next_free_frame = a.kernel_end + 1],
                   frame |-> None, again |-> TRUE]
             ELSE IF frame >= a.multiboot_start /\ frame <= a.multiboot_end
             THEN \* `frame` is used by the multiboot information structure
                  [alloc |-> [a EXCEPT !.next_free_frame = a.multiboot_end + 1],
                   frame |-> None, again |-> TRUE]
             ELSE \* frame is unused, increment `next_free_frame` and return it
                  [alloc |-> [a EXCEPT !.next_free_frame = @ + 1],
                   frame |-> frame, again |-> FALSE]
    ELSE [alloc |-> a, frame |-> None, again |-> FALSE]

RetryVars ==
    <<mem, cr3, tlb, flushes, tmp, inactive, ctx, panicked,
      boot, range, stacks, gdt, tss, cpu, intr, vga>>

\* a pass of allocate_frame, `passes` being those of the call before it
AllocateFramePass(passes) ==
    /\ \E r \in {AllocateFrameBody(alloc)} :
          /\ alloc' = r.alloc
          /\ hist' = Append(passes, Op("allocate_frame", None, r.frame, 0))
          /\ IF r.again
             THEN pc' = "allocate_frame" /\ UNCHANGED <<last, returned>>
             ELSE /\ pc' = "returned"
                  /\ last' = r.frame
                  /\ returned' = IF r.frame = None THEN returned
                                 ELSE Append(returned, r.frame)
    /\ UNCHANGED RetryVars

\* allocate_frame is called: its first pass
AllocateFrameCall ==
    /\ pc # "allocate_frame"
    /\ AllocateFramePass(<<>>)

\* allocate_frame has called itself: the next pass
AllocateFrameRetry ==
    /\ pc = "allocate_frame"
    /\ AllocateFramePass(hist)

NextRetry ==
    \/ AllocateFrameCall
    \/ AllocateFrameRetry

\* the memory maps of whole pages: the areas may lie in any order, overlap
\* and lie within each other
PageAreaMaps ==
    UNION { [1..n -> { a \in AreaSet : a.base_addr % PAGE_SIZE = 0 /\ a.length % PAGE_SIZE = 0 }] :
              n \in 1..MaxAreas }

InitRetry ==
    /\ \E mm \in PageAreaMaps, k \in ReservedRanges, b \in ReservedRanges :
          alloc = AreaFrameAllocatorNew(FrameStartAddress(k[1]),
                                        FrameStartAddress(k[2]),
                                        FrameStartAddress(b[1]),
                                        FrameStartAddress(b[2]) + HalfPage, mm)
    /\ returned = <<>>
    /\ last = NoCall
    /\ PagingIdle

\* a call that has begun goes on: the kernel has one thread of control
SpecRetry == InitRetry /\ [][NextRetry]_vars /\ WF_vars(AllocateFrameRetry)

\* the last frame of the allocator's current area after the step
CurrentAreaLastFrameNext == AreaLastFrame(alloc'.areas[alloc'.current_area])

\* C34: every pass of allocate_frame that ends in a retry has either moved
\* the cursor up (a reserved range was skipped), or chosen an area whose last
\* frame is not below the cursor without moving the cursor down, or set
\* current_area to None; and every call of allocate_frame returns, with the
\* result the function has as a whole.
C34_AllocateFrameTerminates ==
    /\ [][pc' = "allocate_frame" =>
             \/ alloc'.next_free_frame > alloc.next_free_frame
                   /\ alloc'.current_area = alloc.current_area
             \/ /\ alloc'.current_area # alloc.current_area
                /\ alloc'.current_area # None
                /\ alloc'.next_free_frame >= alloc.next_free_frame
                /\ CurrentAreaLastFrameNext >= alloc'.next_free_frame
             \/ alloc'.current_area = None /\ alloc.current_area # None
         ]_vars
    /\ [][(pc # "allocate_frame" /\ pc' = "returned") =>
             /\ last' \in {None} \cup {alloc.next_free_frame}
             /\ [alloc |-> alloc', frame |-> last'] = allocate_frame(alloc)]_vars
    /\ [][(pc = "allocate_frame" /\ pc' = "returned") =>
             [alloc |-> alloc', frame |-> last'] = allocate_frame(alloc)]_vars
    /\ (pc = "allocate_frame") ~> (pc = "returned")

\* a call has returned a frame after three retries
C34_Witness ==
    /\ pc = "returned"
    /\ Len(hist) >= 4
    /\ last \notin {None, NoCall}

\* a call has returned None after retries
C34_WitnessNone ==
    /\ pc = "returned"
    /\ Len(hist) >= 3
    /\ last = None

(***************************************************************************)
(* The allocator hands out every usable frame.                             *)
(***************************************************************************)
\* the frames from the first to the last frame of one of the areas
FramesOfAreas ==
    UNION { FrameContainingAddress(alloc.areas[i].base_addr)..AreaLastFrame(alloc.areas[i]) :
              i \in 1..Len(alloc.areas) }

\* the frames of the two reserved ranges
ReservedFrames ==
    (alloc.kernel_start..alloc.kernel_end) \cup (alloc.multiboot_start..alloc.multiboot_end)

UsableFrames == FramesOfAreas \ ReservedFrames

ReturnedFrames == { returned[i] : i \in 1..Len(returned) }

\* C35: whatever the order of the areas, and also where they overlap or lie
\* within each other, no usable frame is skipped: every frame between the first
\* and last frame of an area and outside both reserved ranges that lies
\* below the cursor has been returned, and once allocate_frame has returned
\* None every such frame has been returned.
C35_AllocatorComplete ==
    /\ \A f \in UsableFrames : f < alloc.next_free_frame => f \in ReturnedFrames
    /\ last = None => UsableFrames \subseteq ReturnedFrames

\* the allocator is exhausted after it has returned frames from two areas
\* that overlap and of which the memory map names the higher one first
C35_Witness ==
    /\ last = None
    /\ Len(alloc.areas) = 2
    /\ alloc.areas[1].base_addr > alloc.areas[2].base_addr
    /\ FrameContainingAddress(alloc.areas[1].base_addr) <= AreaLastFrame(alloc.areas[2])
    /\ AreaLastFrame(alloc.areas[1]) > AreaLastFrame(alloc.areas[2])
    /\ Len(returned) >= 2
    /\ returned[1] < FrameContainingAddress(alloc.areas[1].base_addr)
    /\ returned[Len(returned)] > AreaLastFrame(alloc.areas[2])

\* the allocator is exhausted after it has returned the frames of an area
\* around another one, named first, and skipped a reserved frame
C35_WitnessNested ==
    /\ last = None
    /\ Len(alloc.areas) = 2
    /\ alloc.areas[1].base_addr > alloc.areas[2].base_addr
    /\ AreaLastFrame(alloc.areas[1]) < AreaLastFrame(alloc.areas[2])
    /\ ReservedFrames \cap FramesOfAreas # {}
    /\ returned # <<>>

(***************************************************************************)
(* map called on one page after another, on tables that hold nothing but   *)
(* the recursive entry.  Among the pages are a P4 entry's table and a P1   *)
(* read as pages through the recursive entry.                              *)
(***************************************************************************)
MaxMapOps == 3

\* a P4 with only the recursive entry; the other frames hold `garbage`
FreshMemory(garbage) ==
    [f \in Frames |->
        IF f = BootP4
        THEN [i \in Indices |->
                IF i = RECURSIVE_INDEX THEN EntrySet(BootP4, BitOr(PRESENT, WRITABLE))
                ELSE 0]
        ELSE [i \in Indices |-> garbage]]

FreshPages ==
    { PageOf(0, 0, 0, 0), PageOf(0, 0, 0, 1), PageOf(0, 1, 0, 0), PageOf(1, 0, 0, 0),
      PageOf(RECURSIVE_INDEX, 0, 0, 0),
      PageOf(RECURSIVE_INDEX, RECURSIVE_INDEX, RECURSIVE_INDEX, 2) }

InitFresh ==
    /\ alloc = BootAllocator
    /\ returned = <<>>
    /\ last = NoCall
    /\ \E garbage \in {0, GarbageWord} : mem = FreshMemory(garbage)
    /\ cr3 = FrameStartAddress(BootP4)
    /\ tlb = <<>>
    /\ flushes = <<>>
    /\ panicked = ""
    /\ hist = <<>>
    /\ KernelIdle
    /\ tmp = NoTemporaryPage
    /\ inactive = {}
    /\ ctx = NoContext

\* the pages map has been called on
PagesCalled == { hist[i].page : i \in 1..Len(hist) }

\* map is called on a page it has not been called on before
NextFresh ==
    /\ Len(hist) < MaxMapOps
    /\ ~Faults(M, P4)
    /\ \E page \in FreshPages \ PagesCalled : Map(page, WRITABLE)

SpecFresh == InitFresh /\ [][NextFresh]_vars

\* the frames the entries of table `f` at `indices` point to as tables
PointedTables(f, indices) ==
    { pointed_frame(mem[f][i]) :
        i \in { j \in indices : /\ Contains(flags_of(mem[f][j]), PRESENT)
                                /\ ~Contains(flags_of(mem[f][j]), HUGE_PAGE) } }

\* the frames an entry of one of the tables `frames` points to as a table
TablesUnder(frames) ==
    UNION { PointedTables(f, Indices) : f \in frames \cap DOMAIN mem }

\* the frames used as P3
P3Frames == PointedTables(FrameContainingAddress(cr3), Indices \ {RECURSIVE_INDEX})

\* the frames used as P3, P2 or P1
TableFrames == P3Frames \cup TablesUnder(P3Frames) \cup TablesUnder(TablesUnder(P3Frames))

\* whether no two of `pages` translate to the same frame, and none to a
\* frame used as P3, P2 or P1
InjectiveOffTables(pages) ==
    /\ \A p, q \in pages : p # q => Walk(M, p) # Walk(M, q)
    /\ \A p \in pages : Walk(M, p) # None /\ Walk(M, p) \notin TableFrames

\* the step is a call of map that returned
MapStep ==
    /\ hist' # hist
    /\ hist'[Len(hist')].op = "map"
    /\ hist'[Len(hist')].panic = ""

\* C36 as stated: after map calls on distinct pages, on tables that held only
\* the recursive entry, no two of the pages translate to the same frame, none
\* of their frames is used as P3, P2 or P1, and each call has taken at most
\* four frames from the allocator.
C36_MapInjective ==
    /\ [][MapStep => Len(returned') - Len(returned) <= 4]_vars
    /\ [](panicked = "" => InjectiveOffTables(PagesCalled))

\* C36, amended: the same, for map calls on pages that are not reached through
\* the recursive P4 entry.
C36_MapInjectiveBelowRecursive ==
    /\ [][MapStep => Len(returned') - Len(returned) <= 4]_vars
    /\ []((panicked = "" /\ \A p \in PagesCalled : p4_index(p) # RECURSIVE_INDEX)
             => InjectiveOffTables(PagesCalled))

\* three pages are mapped, two of them in one P1 and the third under another
\* P4 entry, whose call took four frames
C36_Witness ==
    /\ panicked = ""
    /\ PagesCalled = { PageOf(0, 0, 0, 0), PageOf(0, 0, 0, 1), PageOf(1, 0, 0, 0) }
    /\ LastOp.page = PageOf(1, 0, 0, 0)
    /\ Len(returned) = 9
    /\ Cardinality(TableFrames) = 6

=============================================================================
